---- MODULE Spec2Model ----
(***************************************************************************)
(* A model of the consensus server of mcp-consensus: the agreement         *)
(* evaluator (checkConsensus), the directive parser (parseToolRequests)    *)
(* and the round orchestrator (processConsensus, parallel variant).        *)
(*                                                                         *)
(* Strings are sequences of atoms.  An atom is a TLA+ string standing for  *)
(* one character or for one run of characters that the program never       *)
(* splits ("TOOL_REQUEST:", "constructor").  toLowerCase and trim are       *)
(* computed atom by atom.  An optional value (T | undefined) is a sequence *)
(* of length at most one: <<>> is undefined, <<v>> is the value v.         *)
(***************************************************************************)
EXTENDS Integers, Sequences, FiniteSets, TLC

VARIABLES
    maxRounds,            \* this.maxRounds
    consensusThreshold,   \* this.consensusThreshold, a rational [num, den]
    discussionHistory,    \* this.discussionHistory, shared by all calls
    arguments,            \* per call: request.params.arguments, the input of the call
    pc,                   \* per call: "idle", "round", "summary", "done"
    round,                \* per call: the local variable round
    finalConsensus,       \* per call: the local variable finalConsensus
    settled,              \* per call: the promises of the current fan-out, by roster index
    prompt,               \* per call: the prompt given to the advisors of the current fan-out
    result,               \* per call: the value processConsensus resolved to
    outcomeLog,           \* history: per call, the transport outcomes of each fan-out
    summaryPasses,        \* history: per call, the number of summary fan-outs
    evalResponses,        \* checkConsensus harness: the responses argument
    evalThreshold,        \* checkConsensus harness: the threshold argument
    evalResult,           \* checkConsensus harness: the returned value
    parseParts,           \* parseToolRequests harness: the parts of the response argument
    parseResult           \* parseToolRequests harness: the returned value

orchVars == <<maxRounds, consensusThreshold, discussionHistory, arguments, pc, round,
              finalConsensus, settled, prompt, result, outcomeLog, summaryPasses>>
evalVars == <<evalResponses, evalThreshold, evalResult, parseParts, parseResult>>
vars == <<orchVars, evalVars>>

(***************************************************************************)
(* Bounds of the model.                                                    *)
(***************************************************************************)
NumAdvisors == 3
MaxRoundsCfg == 2
MaxResponses == 5

(***************************************************************************)
(* Optional values and small helpers.                                      *)
(***************************************************************************)
None == <<>>
Some(v) == <<v>>

SetMin(S) == CHOOSE x \in S : \A y \in S : x <= y
SetMax(S) == CHOOSE x \in S : \A y \in S : x >= y

RECURSIVE Flatten(_)
Flatten(ss) == IF ss = <<>> THEN <<>> ELSE Head(ss) \o Flatten(Tail(ss))

(***************************************************************************)
(* String.prototype.toLowerCase and String.prototype.trim.                 *)
(***************************************************************************)
LowerAtom(c) ==
    CASE c = "A" -> "a"
      [] c = "B" -> "b"
      [] c = "Error querying advisor:" -> "error querying advisor:"
      [] c = "Error generating summary:" -> "error generating summary:"
      [] c = "No response received" -> "no response received"
      [] c = "TOOL_REQUEST:" -> "tool_request:"
      [] c = "Summary" -> "summary"
      [] OTHER -> c

\* the white space of trim, of \s and of JSON, as far as the model has it
Spaces == {" ", "\t"}

IsSpace(c) == c \in Spaces

ToLowerCase(s) == [i \in 1..Len(s) |-> LowerAtom(s[i])]

Trim(s) ==
    LET keep == {i \in 1..Len(s) : ~IsSpace(s[i])}
    IN  IF keep = {} THEN <<>> ELSE SubSeq(s, SetMin(keep), SetMax(keep))

\* a variant of Normalize that forgets trim
NormalizeNoTrim(s) == ToLowerCase(s)

\* r.response.toLowerCase().trim()
Normalize(s) == Trim(ToLowerCase(s))

(***************************************************************************)
(* The object agreementCounts of checkConsensus.  It is a plain object     *)
(* ({}), so it inherits from Object.prototype: reading a key that names an *)
(* inherited member gives that member, not undefined.  After toLowerCase   *)
(* the only such keys are "constructor" and "__proto__".                   *)
(*   acc["constructor"]: the function Object, truthy, so the stored value  *)
(*     is the string Object + 1 and stays a non-numeric string;            *)
(*   acc["__proto__"]: the prototype object, truthy, and the assignment of *)
(*     a string through the __proto__ setter is ignored: no own property.  *)
(* An entry is [key, numeric, count]; numeric = FALSE is a string value.   *)
(***************************************************************************)
ProtoKey == <<"__proto__">>
InheritedKeys == {<<"constructor">>}

HasKey(acc, key) == \E i \in 1..Len(acc) : acc[i].key = key

CountStepPlain(acc, key) ==
    IF HasKey(acc, key)
    THEN [i \in 1..Len(acc) |->
            IF acc[i].key = key THEN [acc[i] EXCEPT !.count = @ + 1] ELSE acc[i]]
    ELSE Append(acc, [key |-> key, numeric |-> TRUE, count |-> 1])

\* acc[response] = (acc[response] || 0) + 1
CountStep(acc, key) ==
    IF key = ProtoKey THEN acc
    ELSE IF key \in InheritedKeys
    THEN IF HasKey(acc, key) THEN acc
         ELSE Append(acc, [key |-> key, numeric |-> FALSE, count |-> 0])
    ELSE CountStepPlain(acc, key)

RECURSIVE CountReduce(_, _)
CountReduce(texts, acc) ==
    IF texts = <<>> THEN acc
    ELSE CountReduce(Tail(texts), CountStep(acc, Head(texts)))

\* responseTexts.reduce(..., {})
AgreementCounts(responseTexts) == CountReduce(responseTexts, <<>>)

(***************************************************************************)
(* Property order of Object.keys / Object.values: keys that are array      *)
(* indices (canonical decimal numbers below 2^32 - 1) come first, in       *)
(* ascending numeric order; the other keys follow in insertion order.      *)
(***************************************************************************)
Digits == {"0", "1", "2", "3", "4", "5", "6", "7", "8", "9"}

DigitVal(c) ==
    CASE c = "0" -> 0 [] c = "1" -> 1 [] c = "2" -> 2 [] c = "3" -> 3
      [] c = "4" -> 4 [] c = "5" -> 5 [] c = "6" -> 6 [] c = "7" -> 7
      [] c = "8" -> 8 [] c = "9" -> 9

\* a < b for two digit sequences of the same length
RECURSIVE DigitsLess(_, _)
DigitsLess(a, b) ==
    IF a = <<>> THEN FALSE
    ELSE IF Head(a) # Head(b) THEN DigitVal(Head(a)) < DigitVal(Head(b))
    ELSE DigitsLess(Tail(a), Tail(b))

MaxIndexDigits == <<"4", "2", "9", "4", "9", "6", "7", "2", "9", "5">>

IsArrayIndex(key) ==
    /\ Len(key) \in 1..Len(MaxIndexDigits)
    /\ \A i \in 1..Len(key) : key[i] \in Digits
    /\ (Len(key) > 1 => key[1] # "0")
    /\ (Len(key) = Len(MaxIndexDigits) => DigitsLess(key, MaxIndexDigits))

\* a <= b for two array-index keys
IndexLeq(a, b) ==
    \/ Len(a) < Len(b)
    \/ Len(a) = Len(b) /\ ~DigitsLess(b, a)

RECURSIVE SortByIndex(_)
SortByIndex(entries) ==
    IF entries = <<>> THEN <<>>
    ELSE LET m == CHOOSE i \in 1..Len(entries) :
                      \A j \in 1..Len(entries) :
                          IndexLeq(entries[i].key, entries[j].key)
         IN  <<entries[m]>> \o
             SortByIndex(SubSeq(entries, 1, m - 1) \o SubSeq(entries, m + 1, Len(entries)))

OwnEntries(acc) ==
    SortByIndex(SelectSeq(acc, LAMBDA e : IsArrayIndex(e.key)))
        \o SelectSeq(acc, LAMBDA e : ~IsArrayIndex(e.key))

(***************************************************************************)
(* checkConsensus(responses, threshold).  The threshold is a rational      *)
(* [num, den], so ratio >= threshold is maxAgreement * den >= num * n.     *)
(* Math.max of a list holding a non-numeric string is NaN, and             *)
(* NaN >= threshold is false.                                              *)
(***************************************************************************)
MaxIsNaN(entries) == \E i \in 1..Len(entries) : ~entries[i].numeric

MaxAgreement(entries) == SetMax({entries[i].count : i \in 1..Len(entries)})

\* agreementRatio >= threshold
RatioMeets(maxAgreement, n, threshold) ==
    maxAgreement * threshold.den >= threshold.num * n

\* Object.keys(agreementCounts).find(key => agreementCounts[key] === maxAgreement)
MajorityKey(entries, maxAgreement) ==
    LET hits == {i \in 1..Len(entries) :
                    entries[i].numeric /\ entries[i].count = maxAgreement}
    IN  entries[SetMin(hits)].key

\* responses.find(r => r.response.toLowerCase().trim() === key)
FindResponse(responses, key) ==
    LET hits == {i \in 1..Len(responses) : Normalize(responses[i].response) = key}
    IN  IF hits = {} THEN None ELSE Some(responses[SetMin(hits)].response)

NoConsensus == [hasConsensus |-> FALSE, consensus |-> None]

\* the part of checkConsensus after the unanimity test; Math.max() of no
\* value is -Infinity, which is below every threshold
MajorityConsensus(responses, threshold) ==
    LET responseTexts == [i \in 1..Len(responses) |-> Normalize(responses[i].response)]
        entries == OwnEntries(AgreementCounts(responseTexts))
    IN  IF entries = <<>> \/ MaxIsNaN(entries)
        THEN NoConsensus
        ELSE IF RatioMeets(MaxAgreement(entries), Len(responses), threshold)
        THEN [hasConsensus |-> TRUE,
              consensus |-> FindResponse(responses,
                                MajorityKey(entries, MaxAgreement(entries)))]
        ELSE NoConsensus

checkConsensus(responses, threshold) ==
    IF Len(responses) < 2
    THEN NoConsensus
    ELSE
    LET responseTexts == [i \in 1..Len(responses) |-> Normalize(responses[i].response)]
        uniqueResponses == {responseTexts[i] : i \in 1..Len(responseTexts)}
    IN  IF Cardinality(uniqueResponses) = 1
        THEN [hasConsensus |-> TRUE, consensus |-> Some(responses[1].response)]
        ELSE MajorityConsensus(responses, threshold)

(***************************************************************************)
(* parseToolRequests(response): every match of                             *)
(*   TOOL_REQUEST:\s*{\s*"tool":\s*"([^"]+)"\s*,\s*"parameters":\s*        *)
(*   ({[^}]+})\s*,\s*"reason":\s*"([^"]+)"\s*}                             *)
(* scanned left to right (flag g), each kept when JSON.parse of the        *)
(* second group succeeds.  Every repetition of the pattern is followed by  *)
(* an atom outside its class, so the greedy match is the only match.       *)
(***************************************************************************)
QuoteAtoms == {"\"", "\"tool\":", "\"parameters\":", "\"reason\":"}

Lit(t, i, c) == i <= Len(t) /\ t[i] = c

\* the index after the longest run, starting at i, of atoms c with
\* (c \in class) = inside: the repetitions \s*, [^"]+, [^}]+ and \d+
RunEnd(t, i, class, inside) ==
    LET stops == {j \in i..Len(t) : (t[j] \in class) # inside}
    IN  IF stops = {} THEN Len(t) + 1 ELSE SetMin(stops)

SkipWs(t, i) == RunEnd(t, i, Spaces, TRUE)

NoMatch == [ok |-> FALSE, end |-> 0, tool |-> <<>>, params |-> <<>>, reason |-> <<>>]

MatchAt(t, i) ==
    IF ~Lit(t, i, "TOOL_REQUEST:") THEN NoMatch ELSE
    LET p2 == SkipWs(t, i + 1) IN
    IF ~Lit(t, p2, "{") THEN NoMatch ELSE
    LET p3 == SkipWs(t, p2 + 1) IN
    IF ~Lit(t, p3, "\"tool\":") THEN NoMatch ELSE
    LET p4 == SkipWs(t, p3 + 1) IN
    IF ~Lit(t, p4, "\"") THEN NoMatch ELSE
    LET p5 == RunEnd(t, p4 + 1, QuoteAtoms, FALSE) IN
    IF ~(p5 > p4 + 1 /\ Lit(t, p5, "\"")) THEN NoMatch ELSE
    LET p6 == SkipWs(t, p5 + 1) IN
    IF ~Lit(t, p6, ",") THEN NoMatch ELSE
    LET p7 == SkipWs(t, p6 + 1) IN
    IF ~Lit(t, p7, "\"parameters\":") THEN NoMatch ELSE
    LET p8 == SkipWs(t, p7 + 1) IN
    IF ~Lit(t, p8, "{") THEN NoMatch ELSE
    LET p9 == RunEnd(t, p8 + 1, {"}"}, FALSE) IN
    IF ~(p9 > p8 + 1 /\ Lit(t, p9, "}")) THEN NoMatch ELSE
    LET p10 == SkipWs(t, p9 + 1) IN
    IF ~Lit(t, p10, ",") THEN NoMatch ELSE
    LET p11 == SkipWs(t, p10 + 1) IN
    IF ~Lit(t, p11, "\"reason\":") THEN NoMatch ELSE
    LET p12 == SkipWs(t, p11 + 1) IN
    IF ~Lit(t, p12, "\"") THEN NoMatch ELSE
    LET p13 == RunEnd(t, p12 + 1, QuoteAtoms, FALSE) IN
    IF ~(p13 > p12 + 1 /\ Lit(t, p13, "\"")) THEN NoMatch ELSE
    LET p14 == SkipWs(t, p13 + 1) IN
    IF ~Lit(t, p14, "}") THEN NoMatch ELSE
    [ok |-> TRUE, end |-> p14 + 1,
     tool |-> SubSeq(t, p4 + 1, p5 - 1),
     params |-> SubSeq(t, p8, p9),
     reason |-> SubSeq(t, p12 + 1, p13 - 1)]

(***************************************************************************)
(* JSON.parse of the captured parameters text "{" ... "}" (no "}" inside). *)
(* The grammar covered: an object whose members are "key": value with      *)
(* value a string, a number written with digits, true, false or null.      *)
(* A raw tab inside a string is a syntax error.  The parsed object is the  *)
(* sequence of its members [k, v], a repeated key keeping its first place  *)
(* and its last value.                                                     *)
(***************************************************************************)
ExpandAtom(c) ==
    CASE c = "\"tool\":" -> <<"\"", "tool", "\"", ":">>
      [] c = "\"parameters\":" -> <<"\"", "parameters", "\"", ":">>
      [] c = "\"reason\":" -> <<"\"", "reason", "\"", ":">>
      [] OTHER -> <<c>>

Chars(t) == Flatten([i \in 1..Len(t) |-> ExpandAtom(t[i])])

\* the atoms that end a run of string characters: the quote, and the raw tab
StringStops == {"\"", "\t"}
IsDigit(c) == c \in Digits

JsonFail == [ok |-> FALSE, end |-> 0, v |-> <<>>]

\* a string that starts at i: its content and the index after the closing quote
JsonString(t, i) ==
    IF ~Lit(t, i, "\"") THEN JsonFail ELSE
    LET j == RunEnd(t, i + 1, StringStops, FALSE) IN
    IF ~Lit(t, j, "\"") THEN JsonFail
    ELSE [ok |-> TRUE, end |-> j + 1, v |-> SubSeq(t, i + 1, j - 1)]

JsonValue(t, i) ==
    IF Lit(t, i, "\"")
    THEN LET s == JsonString(t, i)
         IN  [ok |-> s.ok, end |-> s.end, v |-> <<"string">> \o s.v]
    ELSE IF i <= Len(t) /\ IsDigit(t[i])
    THEN LET j == RunEnd(t, i, Digits, TRUE)
         IN  IF j > i + 1 /\ t[i] = "0" THEN JsonFail
             ELSE [ok |-> TRUE, end |-> j, v |-> <<"number">> \o SubSeq(t, i, j - 1)]
    ELSE IF i <= Len(t) /\ t[i] \in {"true", "false", "null"}
    THEN [ok |-> TRUE, end |-> i + 1, v |-> <<t[i]>>]
    ELSE JsonFail

PutMember(members, k, v) ==
    IF \E n \in 1..Len(members) : members[n].k = k
    THEN [n \in 1..Len(members) |->
            IF members[n].k = k THEN [k |-> k, v |-> v] ELSE members[n]]
    ELSE Append(members, [k |-> k, v |-> v])

JsonBad == [ok |-> FALSE, members |-> <<>>]

RECURSIVE JsonMembers(_, _, _)
JsonMembers(t, i, members) ==
    LET key == JsonString(t, i) IN
    IF ~key.ok THEN JsonBad ELSE
    LET c == SkipWs(t, key.end) IN
    IF ~Lit(t, c, ":") THEN JsonBad ELSE
    LET val == JsonValue(t, SkipWs(t, c + 1)) IN
    IF ~val.ok THEN JsonBad ELSE
    LET n == SkipWs(t, val.end)
        got == PutMember(members, key.v, val.v)
    IN  IF Lit(t, n, "}") /\ SkipWs(t, n + 1) > Len(t)
        THEN [ok |-> TRUE, members |-> got]
        ELSE IF Lit(t, n, ",")
        THEN JsonMembers(t, SkipWs(t, n + 1), got)
        ELSE JsonBad

JsonParseObject(text) ==
    LET t == Chars(text)
        a == SkipWs(t, 1)
    IN  IF ~Lit(t, a, "{") THEN JsonBad ELSE
        LET b == SkipWs(t, a + 1) IN
        IF Lit(t, b, "}") /\ SkipWs(t, b + 1) > Len(t)
        THEN [ok |-> TRUE, members |-> <<>>]
        ELSE JsonMembers(t, b, <<>>)

RECURSIVE ParseFrom(_, _)
ParseFrom(t, i) ==
    IF i > Len(t) THEN <<>>
    ELSE IF ~Lit(t, i, "TOOL_REQUEST:")
    \* no match starts before the next literal TOOL_REQUEST:
    THEN ParseFrom(t, RunEnd(t, i, {"TOOL_REQUEST:"}, FALSE))
    ELSE LET m == MatchAt(t, i) IN
         IF ~m.ok THEN ParseFrom(t, i + 1)
         ELSE LET parameters == JsonParseObject(m.params)
              IN  (IF parameters.ok
                   THEN <<[tool |-> m.tool, parameters |-> parameters.members,
                           reason |-> m.reason]>>
                   ELSE <<>>) \o ParseFrom(t, m.end)

parseToolRequests(response) == ParseFrom(response, 1)

(***************************************************************************)
(* The instance: the roster and the configuration read by the constructor. *)
(* The model runs the first NumAdvisors advisors of the roster.            *)
(***************************************************************************)
MaxRoundsLimit == 10

preConfiguredAdvisors ==
    SubSeq(<<"advisor_alpha", "advisor_beta", "advisor_gamma", "advisor_delta",
             "advisor_epsilon">>, 1, NumAdvisors)

Advisors == 1..Len(preConfiguredAdvisors)

\* the values of CONSENSUS_MAX_ROUNDS the constructor accepts, up to the bound
ConfigMaxRounds == {n \in 1..MaxRoundsCfg : n <= MaxRoundsLimit}

\* values of CONSENSUS_THRESHOLD the constructor accepts: 0.8 (the default), 0.6
ConfigThresholds == {[num |-> 4, den |-> 5], [num |-> 3, den |-> 5]}

RunIds == {1, 2}

(***************************************************************************)
(* JavaScript values of the request arguments: [t, s, items], t the type,  *)
(* s the text of a string or the digits of a number, items the elements of *)
(* an array.  An input is null, undefined, a primitive (a number, a        *)
(* string, a boolean: its properties read as undefined) or an object with  *)
(* the two fields.                                                         *)
(***************************************************************************)
JsUndefined == [t |-> "undefined", s |-> <<>>, items |-> <<>>]
JsString(s) == [t |-> "string", s |-> s, items |-> <<>>]
JsNumber(d) == [t |-> "number", s |-> d, items |-> <<>>]
JsArray(items) == [t |-> "array", s |-> <<>>, items |-> items]

Truthy(v) ==
    CASE v.t = "undefined" -> FALSE
      [] v.t = "null" -> FALSE
      [] v.t = "string" -> v.s # <<>>
      [] v.t = "number" -> v.s # <<"0">>
      [] OTHER -> TRUE

InputNull == [kind |-> "null", problem |-> JsUndefined, availableTools |-> JsUndefined]
InputUndefined == [InputNull EXCEPT !.kind = "undefined"]
InputPrimitive == [InputNull EXCEPT !.kind = "primitive"]
\* no call yet
NoArguments == [InputNull EXCEPT !.kind = "none"]
InputObject(p, tools) == [kind |-> "object", problem |-> p, availableTools |-> tools]

\* a text is truthy unless it is undefined or the empty string
TruthyText(opt) == opt # None /\ opt[1] # <<>>

(***************************************************************************)
(* validateConsensusData(input), with the TypeError of reading a property  *)
(* of null.                                                                *)
(***************************************************************************)
\* a variant of validateConsensusData that tests the types only: the empty
\* problem passes
validateConsensusDataTypesOnly(input) ==
    IF input.kind \in {"null", "undefined"}
    THEN [ok |-> FALSE,
          error |-> <<"Cannot read properties of ", input.kind, " (reading 'problem')">>,
          problem |-> <<>>, availableTools |-> <<>>]
    ELSE IF input.problem.t # "string"
    THEN [ok |-> FALSE, error |-> <<"Invalid problem: must be a string">>,
          problem |-> <<>>, availableTools |-> <<>>]
    ELSE IF input.availableTools.t # "array"
    THEN [ok |-> FALSE, error |-> <<"Invalid availableTools: must be an array">>,
          problem |-> <<>>, availableTools |-> <<>>]
    ELSE [ok |-> TRUE, error |-> <<>>,
          problem |-> input.problem.s, availableTools |-> input.availableTools.items]

\* a variant of validateConsensusData that also refuses an empty array
validateConsensusDataNonEmpty(input) ==
    IF input.kind \in {"null", "undefined"}
    THEN [ok |-> FALSE,
          error |-> <<"Cannot read properties of ", input.kind, " (reading 'problem')">>,
          problem |-> <<>>, availableTools |-> <<>>]
    ELSE IF ~Truthy(input.problem) \/ input.problem.t # "string"
    THEN [ok |-> FALSE, error |-> <<"Invalid problem: must be a string">>,
          problem |-> <<>>, availableTools |-> <<>>]
    ELSE IF \/ ~Truthy(input.availableTools) \/ input.availableTools.t # "array"
            \/ input.availableTools.items = <<>>
    THEN [ok |-> FALSE, error |-> <<"Invalid availableTools: must be an array">>,
          problem |-> <<>>, availableTools |-> <<>>]
    ELSE [ok |-> TRUE, error |-> <<>>,
          problem |-> input.problem.s, availableTools |-> input.availableTools.items]

validateConsensusData(input) ==
    IF input.kind \in {"null", "undefined"}
    THEN [ok |-> FALSE,
          error |-> <<"Cannot read properties of ", input.kind, " (reading 'problem')">>,
          problem |-> <<>>, availableTools |-> <<>>]
    ELSE IF ~Truthy(input.problem) \/ input.problem.t # "string"
    THEN [ok |-> FALSE, error |-> <<"Invalid problem: must be a string">>,
          problem |-> <<>>, availableTools |-> <<>>]
    ELSE IF ~Truthy(input.availableTools) \/ input.availableTools.t # "array"
    THEN [ok |-> FALSE, error |-> <<"Invalid availableTools: must be an array">>,
          problem |-> <<>>, availableTools |-> <<>>]
    ELSE [ok |-> TRUE, error |-> <<>>,
          problem |-> input.problem.s, availableTools |-> input.availableTools.items]

(***************************************************************************)
(* queryAdvisor.  A transport outcome is [ok, content]: the completion     *)
(* arrived with that message content (<<>> is null or the empty string),   *)
(* or the call threw an Error with that message.                           *)
(***************************************************************************)
Ok(text) == [ok |-> TRUE, content |-> text]
Err(message) == [ok |-> FALSE, content |-> message]

\* a variant of queryAdvisor without the default text: empty content is returned
queryAdvisorNoDefault(o) ==
    IF o.ok
    THEN [threw |-> FALSE, value |-> o.content]
    ELSE [threw |-> TRUE, value |-> o.content]

queryAdvisor(o) ==
    IF o.ok
    THEN [threw |-> FALSE,
          value |-> IF o.content = <<>> THEN <<"No response received">> ELSE o.content]
    ELSE [threw |-> TRUE, value |-> o.content]

(***************************************************************************)
(* The promises of a fan-out.  A promise is pending or settled; the async  *)
(* arrow functions catch every error of queryAdvisor, so they fulfil.      *)
(***************************************************************************)
PendingPromise ==
    [status |-> "pending", advisorId |-> "", response |-> <<>>,
     toolRequests |-> <<>>, reason |-> <<>>]
NoPromise == [PendingPromise EXCEPT !.status = "none"]

Fulfilled(id, response, toolRequests) ==
    [status |-> "fulfilled", advisorId |-> id, response |-> response,
     toolRequests |-> toolRequests, reason |-> <<>>]
Rejected(reason) ==
    [status |-> "rejected", advisorId |-> "", response |-> <<>>,
     toolRequests |-> <<>>, reason |-> reason]

\* a variant of RoundTask without the try/catch: the promise rejects
RoundTaskNoCatch(a, o) ==
    LET q == queryAdvisor(o) IN
    IF ~q.threw
    THEN Fulfilled(preConfiguredAdvisors[a], q.value, parseToolRequests(q.value))
    ELSE Rejected(q.value)

\* a variant of RoundTask whose catch block drops the error message
RoundTaskDropsReason(a, o) ==
    LET q == queryAdvisor(o) IN
    IF ~q.threw
    THEN Fulfilled(preConfiguredAdvisors[a], q.value, parseToolRequests(q.value))
    ELSE Fulfilled(preConfiguredAdvisors[a], <<"Error querying advisor:", " ">>, <<>>)

\* the arrow function mapped over the roster in a round
RoundTask(a, o) ==
    LET q == queryAdvisor(o) IN
    IF ~q.threw
    THEN Fulfilled(preConfiguredAdvisors[a], q.value, parseToolRequests(q.value))
    ELSE Fulfilled(preConfiguredAdvisors[a],
                   <<"Error querying advisor:", " ">> \o q.value, <<>>)

\* a variant of SummaryTask without the try/catch: the promise rejects
SummaryTaskNoCatch(a, o) ==
    LET q == queryAdvisor(o) IN
    IF ~q.threw
    THEN Fulfilled(preConfiguredAdvisors[a], q.value, <<>>)
    ELSE Rejected(q.value)

\* the arrow function mapped over the roster in the summary pass
SummaryTask(a, o) ==
    LET q == queryAdvisor(o) IN
    IF ~q.threw
    THEN Fulfilled(preConfiguredAdvisors[a], q.value, <<>>)
    ELSE Fulfilled(preConfiguredAdvisors[a],
                   <<"Error generating summary:", " ">> \o q.value, <<>>)

AllPending == [a \in Advisors |-> PendingPromise]
NoPromises == [a \in Advisors |-> NoPromise]
\* a variant of AllSettled that resolves with the first promise to settle
AnySettled(ps) == \E a \in Advisors : ps[a].status \in {"fulfilled", "rejected"}

\* a variant of AllSettled that waits for the first advisor's promise only
FirstSettled(ps) == ps[1].status \in {"fulfilled", "rejected"}

\* a variant of AllSettled that gives up on the last invocation still pending
AllButOneSettled(ps) ==
    Cardinality({a \in Advisors : ps[a].status = "pending"}) <= 1

AllSettled(ps) == \A a \in Advisors : ps[a].status \in {"fulfilled", "rejected"}

(***************************************************************************)
(* The loops over the settled results.  An AdvisorResponse is              *)
(* [advisorId, response, toolRequests], toolRequests <<>> when undefined.  *)
(***************************************************************************)
RoundResponse(p) ==
    IF p.status = "fulfilled"
    THEN [advisorId |-> p.advisorId, response |-> p.response,
          toolRequests |-> p.toolRequests]
    ELSE [advisorId |-> "unknown", response |-> <<"Advisor failed:", " ">> \o p.reason,
          toolRequests |-> <<>>]

\* a variant of RoundResponses that does not keep the order of the roster
RoundResponsesReversed(ps) ==
    [a \in Advisors |-> RoundResponse(ps[Len(preConfiguredAdvisors) + 1 - a])]

RoundResponses(ps) == [a \in Advisors |-> RoundResponse(ps[a])]

\* a variant of AllToolRequests that assigns instead of pushing: the last
\* advisor's requests replace the list
AllToolRequestsLastOnly(ps) ==
    IF ps[Len(ps)].status = "fulfilled" THEN ps[Len(ps)].toolRequests ELSE <<>>

\* a variant of AllToolRequests that collects from the last advisor to the first
AllToolRequestsReversed(ps) ==
    Flatten([a \in Advisors |->
                IF ps[NumAdvisors + 1 - a].status = "fulfilled"
                THEN ps[NumAdvisors + 1 - a].toolRequests ELSE <<>>])

AllToolRequests(ps) ==
    Flatten([a \in Advisors |->
                IF ps[a].status = "fulfilled" THEN ps[a].toolRequests ELSE <<>>])

\* a variant of SummaryResponses that gives the summaries to parseToolRequests
SummaryResponsesParsed(ps) ==
    LET one(p) == IF p.status = "fulfilled"
                  THEN <<[advisorId |-> p.advisorId, response |-> p.response,
                          toolRequests |-> parseToolRequests(p.response)]>>
                  ELSE <<>>
    IN  Flatten([a \in Advisors |-> one(ps[a])])

SummaryResponses(ps) ==
    LET one(p) == IF p.status = "fulfilled"
                  THEN <<[advisorId |-> p.advisorId, response |-> p.response,
                          toolRequests |-> <<>>]>>
                  ELSE <<>>
    IN  Flatten([a \in Advisors |-> one(ps[a])])

FinalSummaryVariations(ps) ==
    [a \in Advisors |->
        IF ps[a].status = "fulfilled"
        THEN [advisorId |-> ps[a].advisorId, summary |-> ps[a].response]
        ELSE [advisorId |-> "unknown",
              summary |-> <<"Summary failed:", " ">> \o ps[a].reason]]

(***************************************************************************)
(* generateDiscussionSummary.  substring(0, n) keeps the first n atoms.    *)
(***************************************************************************)
KeyPointLength == 150

Substring(s, n) == SubSeq(s, 1, IF Len(s) < n THEN Len(s) ELSE n)

generateDiscussionSummary(history) ==
    [totalRounds |-> Len(history),
     participants |->
        IF history = <<>> THEN <<>>
        ELSE [i \in 1..Len(history[1].responses) |-> history[1].responses[i].advisorId],
     keyPoints |->
        Flatten([k \in 1..Len(history) |->
            [i \in 1..Len(history[k].responses) |->
                [advisor |-> history[k].responses[i].advisorId,
                 point |-> Substring(history[k].responses[i].response,
                                     KeyPointLength)]]])]

(***************************************************************************)
(* The values processConsensus resolves to, as one record shape.           *)
(***************************************************************************)
NoResult ==
    [status |-> "none", isError |-> FALSE, error |-> <<>>, finalConsensus |-> <<>>,
     totalRounds |-> 0, discussionHistory |-> <<>>, finalSummaryVariations |-> <<>>,
     round |-> 0, toolRequests |-> <<>>, discussionSummary |-> None]

NoConsensusText == <<"No consensus reached within the maximum number of rounds">>

\* a variant of FailedResult without the catch block: the promise of
\* processConsensus rejects with the error
FailedResultRethrown(error) ==
    [NoResult EXCEPT !.status = "rejected", !.error = error]

\* a variant of FailedResult that returns the ledger with the error
FailedResultWithLedger(error) ==
    [NoResult EXCEPT !.status = "failed", !.isError = TRUE, !.error = error,
                     !.totalRounds = Len(discussionHistory),
                     !.discussionHistory = discussionHistory]

FailedResult(error) ==
    [NoResult EXCEPT !.status = "failed", !.isError = TRUE, !.error = error]

\* a variant of ToolRequestsResult that reports the round after the current one
ToolRequestsResultNextRound(n, requests, history) ==
    [NoResult EXCEPT !.status = "tool_requests_needed", !.round = n + 1,
                     !.toolRequests = requests,
                     !.discussionSummary = Some(generateDiscussionSummary(history))]

ToolRequestsResult(n, requests, history) ==
    [NoResult EXCEPT !.status = "tool_requests_needed", !.round = n,
                     !.toolRequests = requests,
                     !.discussionSummary = Some(generateDiscussionSummary(history))]

\* a variant of FinalResult that counts the rounds of the loop only
FinalResultLoopRounds(consensus, history, variations) ==
    [NoResult EXCEPT
        !.status = IF TruthyText(consensus) THEN "consensus_reached"
                   ELSE "max_rounds_reached",
        !.finalConsensus = IF TruthyText(consensus) THEN consensus[1]
                           ELSE NoConsensusText,
        !.totalRounds = Len(history) - 1,
        !.discussionHistory = history,
        !.finalSummaryVariations = variations]

FinalResult(consensus, history, variations) ==
    [NoResult EXCEPT
        !.status = IF TruthyText(consensus) THEN "consensus_reached"
                   ELSE "max_rounds_reached",
        !.finalConsensus = IF TruthyText(consensus) THEN consensus[1]
                           ELSE NoConsensusText,
        !.totalRounds = Len(history),
        !.discussionHistory = history,
        !.finalSummaryVariations = variations]

(***************************************************************************)
(* What the environment may do: the requests a client sends and the        *)
(* outcomes of the advisor invocations.                                    *)
(***************************************************************************)
TextA == <<"A">>

DirectiveGood ==
    <<"TOOL_REQUEST:", " ", "{", "\"tool\":", " ", "\"", "web_search", "\"", ",", " ",
      "\"parameters\":", " ", "{", "\"", "query", "\"", ":", " ", "\"", "x", "\"", "}",
      ",", " ", "\"reason\":", " ", "\"", "research", "\"", "}">>

\* the parameters are not JSON: the key is not quoted
DirectiveBad ==
    <<"TOOL_REQUEST:", " ", "{", "\"tool\":", " ", "\"", "calc", "\"", ",", " ",
      "\"parameters\":", " ", "{", "query", ":", " ", "x", "}",
      ",", " ", "\"reason\":", " ", "\"", "compute", "\"", "}">>

TextDirectives == TextA \o <<" ">> \o DirectiveBad \o <<" ">> \o DirectiveGood

TextSummary == <<"Summary">>

RoundOutcomes == {Ok(TextA), Ok(TextDirectives), Err(<<"timeout">>)}

SummaryOutcomes == {Ok(TextSummary), Err(<<"timeout">>)}

\* requests that fail validation
InvalidInputs ==
    { InputObject(JsString(<<>>), JsArray(<< <<"web_search">> >>)),
      InputObject(JsNumber(<<"7">>), JsArray(<< <<"web_search">> >>)),
      InputObject(JsString(<<"P">>), JsUndefined),
      InputObject(JsString(<<"P">>), JsString(<<"web_search">>)),
      InputNull }

Inputs == {InputObject(JsString(<<"P">>), JsArray(<< <<"web_search">> >>))} \cup InvalidInputs

\* more requests: with an empty array of tools, without a problem, without
\* arguments, with arguments that are not an object
EdgeInputs ==
    Inputs \cup
    { InputObject(JsString(<<"P">>), JsArray(<<>>)),
      InputObject(JsUndefined, JsArray(<< <<"web_search">> >>)),
      InputObject(JsUndefined, JsUndefined),
      InputUndefined,
      InputPrimitive }

(***************************************************************************)
(* The prompts.  generateDiscussionContext lists the rounds of the ledger, *)
(* one line for each response, the response cut by substring(0, 200).      *)
(* The fixed texts of the prompts are one atom each.                       *)
(***************************************************************************)
ContextLength == 200

RECURSIVE Join(_, _)
\* Array.prototype.join
Join(items, separator) ==
    IF items = <<>> THEN <<>>
    ELSE IF Len(items) = 1 THEN items[1]
    ELSE items[1] \o separator \o Join(Tail(items), separator)

\* a variant of generateDiscussionContext that lists the last round only
generateDiscussionContextLastRound(history) ==
    <<"Previous Discussion Summary:\n\n">> \o
    Flatten([k \in 1..(IF history = <<>> THEN 0 ELSE 1) |->
        <<"Round ", ToString(history[Len(history)].round), ":\n">> \o
        Flatten([i \in 1..Len(history[Len(history)].responses) |->
            <<"- Advisor ", history[Len(history)].responses[i].advisorId, ": ">> \o
            Substring(history[Len(history)].responses[i].response, ContextLength) \o
            <<"...\n">>]) \o
        <<"\n">>])

generateDiscussionContext(history) ==
    <<"Previous Discussion Summary:\n\n">> \o
    Flatten([k \in 1..Len(history) |->
        <<"Round ", ToString(history[k].round), ":\n">> \o
        Flatten([i \in 1..Len(history[k].responses) |->
            <<"- Advisor ", history[k].responses[i].advisorId, ": ">> \o
            Substring(history[k].responses[i].response, ContextLength) \o
            <<"...\n">>]) \o
        <<"\n">>])

\* the prompt of round n; the variable round of the code is the parameter n
initialPrompt(n, problem, availableTools, currentContext) ==
    IF n = 1
    THEN <<"PROBLEM TO SOLVE:\n">> \o problem \o <<"\n\nAVAILABLE TOOLS:\n">> \o
         Join(availableTools, <<", ">>) \o
         <<"\n\nPlease provide your analysis and solution. [...]">>
    ELSE <<"PREVIOUS DISCUSSION CONTEXT:\n">> \o currentContext \o
         <<"\n\nPlease review the previous discussion [...]">>

summaryPrompt(consensus, context) ==
    <<"FINAL SUMMARY REQUEST:\n">> \o
    (IF TruthyText(consensus)
     THEN <<"Consensus Found:\n">> \o consensus[1] \o <<"\n\n">> ELSE <<>>) \o
    <<"Discussion Context:\n">> \o context \o
    <<"\n\nIn your own words, provide a concise summary [...]">>

(***************************************************************************)
(* History variables.  outcomeLog[r][k][a] is the transport outcome of     *)
(* advisor a in the k-th fan-out of call r, [done |-> FALSE] until the     *)
(* invocation settles.                                                     *)
(***************************************************************************)
NoOutcome == [done |-> FALSE, ok |-> FALSE, content |-> <<>>]
Logged(o) == [done |-> TRUE, ok |-> o.ok, content |-> o.content]
NewFanOut(log) == Append(log, [a \in Advisors |-> NoOutcome])
LogOutcome(log, a, o) == [log EXCEPT ![Len(log)][a] = Logged(o)]

(***************************************************************************)
(* The initial state: a constructed server, no request received.           *)
(***************************************************************************)
InitOrch ==
    /\ maxRounds \in ConfigMaxRounds
    /\ consensusThreshold \in ConfigThresholds
    /\ discussionHistory = <<>>
    /\ arguments = [r \in RunIds |-> NoArguments]
    /\ pc = [r \in RunIds |-> "idle"]
    /\ round = [r \in RunIds |-> 0]
    /\ finalConsensus = [r \in RunIds |-> None]
    /\ settled = [r \in RunIds |-> NoPromises]
    /\ prompt = [r \in RunIds |-> <<>>]
    /\ result = [r \in RunIds |-> NoResult]
    /\ outcomeLog = [r \in RunIds |-> <<>>]
    /\ summaryPasses = [r \in RunIds |-> 0]

InitEvalIdle ==
    /\ evalResponses = <<>>
    /\ evalThreshold = [num |-> 0, den |-> 1]
    /\ evalResult = None
    /\ parseParts = <<>>
    /\ parseResult = None

Init == InitOrch /\ InitEvalIdle

\* a variant of processConsensus without the line that empties the ledger
ProcessConsensusKeepsLedger(r, input) ==
    /\ pc[r] \in {"idle", "done"}
    /\ LET validatedInput == validateConsensusData(input) IN
       IF ~validatedInput.ok
       THEN /\ result' = [result EXCEPT ![r] = FailedResult(validatedInput.error)]
            /\ pc' = [pc EXCEPT ![r] = "done"]
            /\ round' = [round EXCEPT ![r] = 0]
            /\ finalConsensus' = [finalConsensus EXCEPT ![r] = None]
            /\ settled' = [settled EXCEPT ![r] = NoPromises]
            /\ prompt' = [prompt EXCEPT ![r] = <<>>]
            /\ outcomeLog' = [outcomeLog EXCEPT ![r] = <<>>]
            /\ summaryPasses' = [summaryPasses EXCEPT ![r] = 0]
       ELSE /\ round' = [round EXCEPT ![r] = 1]
            /\ finalConsensus' = [finalConsensus EXCEPT ![r] = None]
            /\ result' = [result EXCEPT ![r] = NoResult]
            /\ settled' = [settled EXCEPT ![r] = AllPending]
            /\ prompt' = [prompt EXCEPT ![r] =
                             initialPrompt(1, validatedInput.problem,
                                           validatedInput.availableTools,
                                           validatedInput.problem)]
            /\ pc' = [pc EXCEPT ![r] = "round"]
            /\ outcomeLog' = [outcomeLog EXCEPT ![r] = NewFanOut(<<>>)]
            /\ summaryPasses' = [summaryPasses EXCEPT ![r] = 0]
    /\ arguments' = [arguments EXCEPT ![r] = input]
    /\ UNCHANGED <<maxRounds, consensusThreshold, discussionHistory, evalVars>>

(***************************************************************************)
(* processConsensus, up to its first await: validation, the reset of the   *)
(* ledger, and the fan-out of round 1 (maxRounds >= 1).  A call that fails *)
(* validation resolves at once and leaves the ledger as it was.            *)
(***************************************************************************)
ProcessConsensus(r, input) ==
    /\ pc[r] \in {"idle", "done"}
    /\ LET validatedInput == validateConsensusData(input) IN
       IF ~validatedInput.ok
       THEN /\ result' = [result EXCEPT ![r] = FailedResult(validatedInput.error)]
            /\ pc' = [pc EXCEPT ![r] = "done"]
            /\ round' = [round EXCEPT ![r] = 0]
            /\ finalConsensus' = [finalConsensus EXCEPT ![r] = None]
            /\ settled' = [settled EXCEPT ![r] = NoPromises]
            /\ prompt' = [prompt EXCEPT ![r] = <<>>]
            /\ outcomeLog' = [outcomeLog EXCEPT ![r] = <<>>]
            /\ summaryPasses' = [summaryPasses EXCEPT ![r] = 0]
            /\ UNCHANGED discussionHistory
       ELSE /\ discussionHistory' = <<>>
            /\ round' = [round EXCEPT ![r] = 1]
            /\ finalConsensus' = [finalConsensus EXCEPT ![r] = None]
            /\ result' = [result EXCEPT ![r] = NoResult]
            /\ settled' = [settled EXCEPT ![r] = AllPending]
            /\ prompt' = [prompt EXCEPT ![r] =
                             initialPrompt(1, validatedInput.problem,
                                           validatedInput.availableTools,
                                           validatedInput.problem)]
            /\ pc' = [pc EXCEPT ![r] = "round"]
            /\ outcomeLog' = [outcomeLog EXCEPT ![r] = NewFanOut(<<>>)]
            /\ summaryPasses' = [summaryPasses EXCEPT ![r] = 0]
    /\ arguments' = [arguments EXCEPT ![r] = input]
    /\ UNCHANGED <<maxRounds, consensusThreshold, evalVars>>

(***************************************************************************)
(* One advisor invocation of the round settles: the rest of its arrow      *)
(* function runs and its promise fulfils.                                  *)
(***************************************************************************)
SettleAdvisor(r, a, o) ==
    /\ pc[r] = "round"
    /\ settled[r][a].status = "pending"
    /\ settled' = [settled EXCEPT ![r][a] = RoundTask(a, o)]
    /\ outcomeLog' = [outcomeLog EXCEPT ![r] = LogOutcome(@, a, o)]
    /\ UNCHANGED <<maxRounds, consensusThreshold, discussionHistory, arguments, pc, round,
                   finalConsensus, prompt, result, summaryPasses, evalVars>>

(***************************************************************************)
(* Promise.allSettled of the round resolved: the rest of the loop body,    *)
(* and then either the return of the tool requests, or the next fan-out    *)
(* (the next round, or the summary pass after the loop).                   *)
(***************************************************************************)
\* a variant of RoundVerdict that tests the tool requests before the consensus
RoundVerdictToolsFirst(hasConsensus, allToolRequests) ==
    IF allToolRequests # <<>> THEN "return"
    ELSE IF hasConsensus THEN "break"
    ELSE "continue"

\* a variant of RoundVerdict that leaves the loop on tool requests instead of
\* returning
RoundVerdictBreakOnTools(hasConsensus, allToolRequests) ==
    IF hasConsensus THEN "break"
    ELSE IF allToolRequests # <<>> THEN "break"
    ELSE "continue"

\* a variant of RoundVerdict without the return on tool requests
RoundVerdictIgnoresTools(hasConsensus, allToolRequests) ==
    IF hasConsensus THEN "break" ELSE "continue"

\* how the loop body ends: break, return, or fall through to round++
RoundVerdict(hasConsensus, allToolRequests) ==
    IF hasConsensus THEN "break"
    ELSE IF allToolRequests # <<>> THEN "return"
    ELSE "continue"

\* a variant of LoopContinues that is off by one
LoopContinuesOffByOne(n, limit, consensus) == n <= limit + 1 /\ ~TruthyText(consensus)

\* a variant of LoopContinues without the round limit
LoopIgnoresLimit(n, limit, consensus) == ~TruthyText(consensus)

\* a variant of LoopContinues that stops one round early
LoopContinuesStrict(n, limit, consensus) == n < limit /\ ~TruthyText(consensus)

\* while (round <= this.maxRounds && !finalConsensus)
LoopContinues(n, limit, consensus) == n <= limit /\ ~TruthyText(consensus)

JoinRound(r) ==
    /\ pc[r] = "round"
    /\ AllSettled(settled[r])
    /\ LET responses == RoundResponses(settled[r])
           allToolRequests == AllToolRequests(settled[r])
           consensusResult == checkConsensus(responses, consensusThreshold)
           discussionRound == [round |-> round[r], responses |-> responses,
                               consensus |-> consensusResult.consensus]
           history == Append(discussionHistory, discussionRound)
           verdict == RoundVerdict(consensusResult.hasConsensus, allToolRequests)
           consensus == IF consensusResult.hasConsensus THEN consensusResult.consensus
                        ELSE finalConsensus[r]
           n == IF verdict = "continue" THEN round[r] + 1 ELSE round[r]
       IN  /\ discussionHistory' = history
           /\ finalConsensus' = [finalConsensus EXCEPT ![r] = consensus]
           /\ round' = [round EXCEPT ![r] = n]
           /\ IF verdict = "return"
              THEN /\ result' = [result EXCEPT ![r] =
                                    ToolRequestsResult(round[r], allToolRequests, history)]
                   /\ pc' = [pc EXCEPT ![r] = "done"]
                   /\ settled' = [settled EXCEPT ![r] = NoPromises]
                   /\ UNCHANGED <<prompt, outcomeLog, summaryPasses>>
              ELSE /\ settled' = [settled EXCEPT ![r] = AllPending]
                   /\ outcomeLog' = [outcomeLog EXCEPT ![r] = NewFanOut(@)]
                   /\ UNCHANGED result
                   /\ IF verdict = "continue" /\ LoopContinues(n, maxRounds, consensus)
                      THEN /\ pc' = [pc EXCEPT ![r] = "round"]
                           /\ prompt' = [prompt EXCEPT ![r] =
                                 initialPrompt(n, <<>>, <<>>,
                                               generateDiscussionContext(history))]
                           /\ UNCHANGED summaryPasses
                      ELSE /\ pc' = [pc EXCEPT ![r] = "summary"]
                           /\ prompt' = [prompt EXCEPT ![r] =
                                 summaryPrompt(consensus,
                                               generateDiscussionContext(history))]
                           /\ summaryPasses' = [summaryPasses EXCEPT ![r] = @ + 1]
    /\ UNCHANGED <<maxRounds, consensusThreshold, arguments, evalVars>>

(***************************************************************************)
(* One advisor invocation of the summary pass settles.                     *)
(***************************************************************************)
SettleSummary(r, a, o) ==
    /\ pc[r] = "summary"
    /\ settled[r][a].status = "pending"
    /\ settled' = [settled EXCEPT ![r][a] = SummaryTask(a, o)]
    /\ outcomeLog' = [outcomeLog EXCEPT ![r] = LogOutcome(@, a, o)]
    /\ UNCHANGED <<maxRounds, consensusThreshold, discussionHistory, arguments, pc, round,
                   finalConsensus, prompt, result, summaryPasses, evalVars>>

(***************************************************************************)
(* Promise.allSettled of the summary pass resolved: the summary round is   *)
(* pushed and the final result returned.                                   *)
(***************************************************************************)
\* a variant of JoinSummary that writes the decided consensus into the rounds
\* already in the ledger
JoinSummaryMarksRounds(r) ==
    /\ pc[r] = "summary"
    /\ AllSettled(settled[r])
    /\ LET marked == [k \in 1..Len(discussionHistory) |->
                        [discussionHistory[k] EXCEPT !.consensus = finalConsensus[r]]]
           history == Append(marked,
                             [round |-> Len(discussionHistory) + 1,
                              responses |-> SummaryResponses(settled[r]),
                              consensus |-> finalConsensus[r]])
       IN  /\ discussionHistory' = history
           /\ result' = [result EXCEPT ![r] =
                            FinalResult(finalConsensus[r], history,
                                        FinalSummaryVariations(settled[r]))]
    /\ pc' = [pc EXCEPT ![r] = "done"]
    /\ settled' = [settled EXCEPT ![r] = NoPromises]
    /\ UNCHANGED <<maxRounds, consensusThreshold, arguments, round, finalConsensus, prompt,
                   outcomeLog, summaryPasses, evalVars>>

JoinSummary(r) ==
    /\ pc[r] = "summary"
    /\ AllSettled(settled[r])
    /\ LET history == Append(discussionHistory,
                             [round |-> Len(discussionHistory) + 1,
                              responses |-> SummaryResponses(settled[r]),
                              consensus |-> finalConsensus[r]])
       IN  /\ discussionHistory' = history
           /\ result' = [result EXCEPT ![r] =
                            FinalResult(finalConsensus[r], history,
                                        FinalSummaryVariations(settled[r]))]
    /\ pc' = [pc EXCEPT ![r] = "done"]
    /\ settled' = [settled EXCEPT ![r] = NoPromises]
    /\ UNCHANGED <<maxRounds, consensusThreshold, arguments, round, finalConsensus, prompt,
                   outcomeLog, summaryPasses, evalVars>>

(***************************************************************************)
(* The server handling one request at a time: call 1 only.                 *)
(***************************************************************************)
SoloRuns == {1}

Next ==
    \/ \E r \in SoloRuns, input \in Inputs : ProcessConsensus(r, input)
    \/ \E r \in SoloRuns, a \in Advisors, o \in RoundOutcomes : SettleAdvisor(r, a, o)
    \/ \E r \in SoloRuns : JoinRound(r)
    \/ \E r \in SoloRuns, a \in Advisors, o \in SummaryOutcomes : SettleSummary(r, a, o)
    \/ \E r \in SoloRuns : JoinSummary(r)

Spec == Init /\ [][Next]_vars

(***************************************************************************)
(* The same server when every advisor invocation eventually settles and    *)
(* the continuation of a settled Promise.allSettled eventually runs.  No   *)
(* request has to arrive.                                                  *)
(*                                                                         *)
(* JoinRound(1) is enabled exactly in the states JoinReady, and every      *)
(* JoinRound(1) step replaces the settled promises and so leaves them:     *)
(* its weak fairness, WF_vars(JoinRound(1)), is []<>~JoinReady, and is     *)
(* written so.                                                             *)
(***************************************************************************)
JoinReady == pc[1] = "round" /\ AllSettled(settled[1])

Fairness ==
    /\ WF_vars(\E a \in Advisors, o \in RoundOutcomes : SettleAdvisor(1, a, o))
    /\ []<>~JoinReady
    /\ WF_vars(\E a \in Advisors, o \in SummaryOutcomes : SettleSummary(1, a, o))
    /\ WF_vars(JoinSummary(1))

SpecLive == Init /\ [][Next]_vars /\ Fairness

(***************************************************************************)
(* The same server under a second set of completions: no content (null or *)
(* the empty string) and blank content.                                    *)
(***************************************************************************)
TextBlank == <<" ">>

TextOutcomes == {Ok(<<>>), Ok(TextBlank)}

NextTexts ==
    \/ \E r \in SoloRuns, input \in Inputs : ProcessConsensus(r, input)
    \/ \E r \in SoloRuns, a \in Advisors, o \in TextOutcomes : SettleAdvisor(r, a, o)
    \/ \E r \in SoloRuns : JoinRound(r)
    \/ \E r \in SoloRuns, a \in Advisors, o \in SummaryOutcomes : SettleSummary(r, a, o)
    \/ \E r \in SoloRuns : JoinSummary(r)

SpecTexts == Init /\ [][NextTexts]_vars

(***************************************************************************)
(* A server that receives one request, of the larger set of requests.      *)
(***************************************************************************)
NextInputs ==
    \/ \E r \in SoloRuns, input \in EdgeInputs :
            pc[r] = "idle" /\ ProcessConsensus(r, input)
    \/ \E r \in SoloRuns, a \in Advisors, o \in RoundOutcomes : SettleAdvisor(r, a, o)
    \/ \E r \in SoloRuns : JoinRound(r)
    \/ \E r \in SoloRuns, a \in Advisors, o \in SummaryOutcomes : SettleSummary(r, a, o)
    \/ \E r \in SoloRuns : JoinSummary(r)

SpecInputs == Init /\ [][NextInputs]_vars

(***************************************************************************)
(* The server handling two requests: the handler starts processConsensus   *)
(* for each request as it arrives, so call 2 may start while call 1 waits  *)
(* on a fan-out.  Both calls run on the one ConsensusServer and its        *)
(* discussionHistory.  Each call is made once, on a server configured with *)
(* a round limit of 1.                                                     *)
(***************************************************************************)
InitOverlap == Init /\ maxRounds = 1

OverlapInputs == {InputObject(JsString(<<"P">>), JsArray(<< <<"web_search">> >>)), InputNull}

OverlapOutcomes == {Ok(TextA), Err(<<"timeout">>)}

OverlapSummaryOutcomes == {Ok(TextSummary)}

\* call 1 is the first request; call 2 arrives while call 1 is waiting
MayStart(r) ==
    /\ pc[r] = "idle"
    /\ r = 2 => pc[1] \in {"round", "summary"}

NextOverlap ==
    \/ \E r \in RunIds, input \in OverlapInputs : MayStart(r) /\ ProcessConsensus(r, input)
    \/ \E r \in RunIds, a \in Advisors, o \in OverlapOutcomes : SettleAdvisor(r, a, o)
    \/ \E r \in RunIds : JoinRound(r)
    \/ \E r \in RunIds, a \in Advisors, o \in OverlapSummaryOutcomes :
            SettleSummary(r, a, o)
    \/ \E r \in RunIds : JoinSummary(r)

SpecOverlap == InitOverlap /\ [][NextOverlap]_vars

(***************************************************************************)
(* The server handling two requests one after the other: the second        *)
(* request arrives when the first call has resolved.  Both calls run on    *)
(* the one ConsensusServer and its discussionHistory, on a server          *)
(* configured with a round limit of 1.  The advisors answer with the plain *)
(* text or with the text that carries directives, so the first call ends   *)
(* with a consensus or with a request for tools.                           *)
(***************************************************************************)
SequenceOutcomes == {Ok(TextA), Ok(TextDirectives)}

\* call 1 is the first request; call 2 arrives after call 1 has resolved
MayStartAfter(r) ==
    /\ pc[r] = "idle"
    /\ r = 2 => pc[1] = "done"

NextSequence ==
    \/ \E r \in RunIds, input \in OverlapInputs :
            MayStartAfter(r) /\ ProcessConsensus(r, input)
    \/ \E r \in RunIds, a \in Advisors, o \in SequenceOutcomes : SettleAdvisor(r, a, o)
    \/ \E r \in RunIds : JoinRound(r)
    \/ \E r \in RunIds, a \in Advisors, o \in OverlapSummaryOutcomes :
            SettleSummary(r, a, o)
    \/ \E r \in RunIds : JoinSummary(r)

SpecSequence == InitOverlap /\ [][NextSequence]_vars

(***************************************************************************)
(* The server configured with a round limit of ContextMaxRounds and the    *)
(* threshold 0.8, answering one request with two tools.  The advisors      *)
(* answer with a short text or with a text of one character more than the  *)
(* context keeps, so a round in which they differ ends without consensus   *)
(* and without directive and the next round is prompted with the context.  *)
(***************************************************************************)
ContextMaxRounds == 3

TextLong == [i \in 1..(ContextLength + 1) |-> IF i > ContextLength THEN "z" ELSE "x"]

ContextOutcomes == {Ok(TextA), Ok(TextLong)}

ContextInputs == {InputObject(JsString(<<"P">>), JsArray(<< <<"web_search">>, <<"calc">> >>))}

InitContext ==
    /\ maxRounds = ContextMaxRounds
    /\ consensusThreshold = [num |-> 4, den |-> 5]
    /\ discussionHistory = <<>>
    /\ arguments = [r \in RunIds |-> NoArguments]
    /\ pc = [r \in RunIds |-> "idle"]
    /\ round = [r \in RunIds |-> 0]
    /\ finalConsensus = [r \in RunIds |-> None]
    /\ settled = [r \in RunIds |-> NoPromises]
    /\ prompt = [r \in RunIds |-> <<>>]
    /\ result = [r \in RunIds |-> NoResult]
    /\ outcomeLog = [r \in RunIds |-> <<>>]
    /\ summaryPasses = [r \in RunIds |-> 0]
    /\ InitEvalIdle

NextContext ==
    \/ \E r \in SoloRuns, input \in ContextInputs : ProcessConsensus(r, input)
    \/ \E r \in SoloRuns, a \in Advisors, o \in ContextOutcomes : SettleAdvisor(r, a, o)
    \/ \E r \in SoloRuns : JoinRound(r)
    \/ \E r \in SoloRuns, a \in Advisors, o \in OverlapSummaryOutcomes :
            SettleSummary(r, a, o)
    \/ \E r \in SoloRuns : JoinSummary(r)

SpecContext == InitContext /\ [][NextContext]_vars

(***************************************************************************)
(* The server of src/index.ts (version 1.0.0), whose names carry the       *)
(* suffix Seq.  It differs from the server above in three places: the      *)
(* round limit and the threshold are fields of the request, checked by     *)
(* validateConsensusData; the advisors of a round are queried one after    *)
(* the other, in a for loop that awaits each queryAdvisor without a        *)
(* try/catch; and there is no summary pass.  The variables maxRounds and   *)
(* consensusThreshold hold validatedInput.maxRounds and                    *)
(* validatedInput.consensusThreshold (0 before the first valid request);   *)
(* settled holds the responses pushed so far in the round, "none" for an   *)
(* advisor not yet queried.                                                *)
(*                                                                         *)
(* A number of the request is the rational num / den, den > 0.             *)
(***************************************************************************)
JsNum(num, den) == [t |-> "number", s |-> <<>>, items |-> <<>>, num |-> num, den |-> den]

IsNumber(v) == v.t = "number"

\* !v is false
TruthySeq(v) == IF IsNumber(v) THEN v.num # 0 ELSE Truthy(v)

InputObjectSeq(p, tools, m, t) ==
    [kind |-> "object", problem |-> p, availableTools |-> tools,
     maxRounds |-> m, consensusThreshold |-> t]

NoArgumentsSeq == [InputObjectSeq(JsUndefined, JsUndefined, JsUndefined, JsUndefined)
                      EXCEPT !.kind = "none"]

InvalidSeq(error) ==
    [ok |-> FALSE, error |-> error, problem |-> <<>>, availableTools |-> <<>>,
     maxRounds |-> 0, consensusThreshold |-> [num |-> 0, den |-> 1]]

\* validateConsensusData of src/index.ts.  The loop compares the integer round
\* with maxRounds, so the integer part of maxRounds is kept.
validateConsensusDataSeq(input) ==
    LET base == validateConsensusData(input)
        m == input.maxRounds
        t == input.consensusThreshold
    IN  IF ~base.ok THEN InvalidSeq(base.error)
        ELSE IF ~TruthySeq(m) \/ ~IsNumber(m) \/ m.num < m.den
        THEN InvalidSeq(<<"Invalid maxRounds: must be a number >= 1">>)
        ELSE IF ~TruthySeq(t) \/ ~IsNumber(t) \/ t.num < 0 \/ t.num > t.den
        THEN InvalidSeq(<<"Invalid consensusThreshold: must be a number between 0 and 1">>)
        ELSE [ok |-> TRUE, error |-> <<>>,
              problem |-> base.problem, availableTools |-> base.availableTools,
              maxRounds |-> m.num \div m.den,
              consensusThreshold |-> [num |-> t.num, den |-> t.den]]

\* the for loop over the roster has called queryAdvisor for the first advisor
FirstQueried == [a \in Advisors |-> IF a = 1 THEN PendingPromise ELSE NoPromise]

\* the for loop goes on to the advisor after a and calls queryAdvisor for it
NextQueried(ps, a) == [ps EXCEPT ![a + 1] = PendingPromise]

InitSeq ==
    /\ maxRounds = 0
    /\ consensusThreshold = [num |-> 0, den |-> 1]
    /\ discussionHistory = <<>>
    /\ arguments = [r \in RunIds |-> NoArgumentsSeq]
    /\ pc = [r \in RunIds |-> "idle"]
    /\ round = [r \in RunIds |-> 0]
    /\ finalConsensus = [r \in RunIds |-> None]
    /\ settled = [r \in RunIds |-> NoPromises]
    /\ prompt = [r \in RunIds |-> <<>>]
    /\ result = [r \in RunIds |-> NoResult]
    /\ outcomeLog = [r \in RunIds |-> <<>>]
    /\ summaryPasses = [r \in RunIds |-> 0]
    /\ InitEvalIdle

(***************************************************************************)
(* processConsensus of src/index.ts up to its first await: validation, the *)
(* reset of the ledger, and the query of the first advisor in round 1.     *)
(***************************************************************************)
ProcessConsensusSeq(r, input) ==
    /\ pc[r] = "idle"
    /\ LET validatedInput == validateConsensusDataSeq(input) IN
       IF ~validatedInput.ok
       THEN /\ result' = [result EXCEPT ![r] = FailedResult(validatedInput.error)]
            /\ pc' = [pc EXCEPT ![r] = "done"]
            /\ UNCHANGED <<maxRounds, consensusThreshold, discussionHistory, round,
                           settled, prompt, outcomeLog>>
       ELSE /\ maxRounds' = validatedInput.maxRounds
            /\ consensusThreshold' = validatedInput.consensusThreshold
            /\ discussionHistory' = <<>>
            /\ round' = [round EXCEPT ![r] = 1]
            /\ settled' = [settled EXCEPT ![r] = FirstQueried]
            /\ prompt' = [prompt EXCEPT ![r] =
                             initialPrompt(1, validatedInput.problem,
                                           validatedInput.availableTools,
                                           validatedInput.problem)]
            /\ pc' = [pc EXCEPT ![r] = "round"]
            /\ outcomeLog' = [outcomeLog EXCEPT ![r] = NewFanOut(<<>>)]
            /\ UNCHANGED result
    /\ arguments' = [arguments EXCEPT ![r] = input]
    /\ UNCHANGED <<finalConsensus, summaryPasses, evalVars>>

(***************************************************************************)
(* The query of advisor a settles.  If it threw, the error leaves the      *)
(* loops and the catch of processConsensus returns it.  Otherwise the      *)
(* response is pushed; then the next advisor is queried or, after the last *)
(* advisor, the round is evaluated and pushed to the ledger and the call   *)
(* breaks, returns the tool requests, starts the next round or ends.       *)
(***************************************************************************)
\* the rest of the loop body once the query of advisor a has settled as q;
\* toolRequests is the result of parseToolRequests for the response
PushResponseSeq(r, a, o, q, toolRequests) ==
   LET pushed == [settled[r] EXCEPT ![a] =
                     Fulfilled(preConfiguredAdvisors[a], q.value, toolRequests)]
       responses == RoundResponses(pushed)
       allToolRequests == AllToolRequests(pushed)
       consensusResult == checkConsensus(responses, consensusThreshold)
       history == Append(discussionHistory,
                         [round |-> round[r], responses |-> responses,
                          consensus |-> consensusResult.consensus])
       verdict == RoundVerdict(consensusResult.hasConsensus, allToolRequests)
       consensus == IF consensusResult.hasConsensus THEN consensusResult.consensus
                    ELSE None
       n == IF verdict = "continue" THEN round[r] + 1 ELSE round[r]
       nextRound == /\ ~q.threw
                    /\ a = Len(preConfiguredAdvisors)
                    /\ verdict = "continue"
                    /\ LoopContinues(n, maxRounds, consensus)
   IN  /\ outcomeLog' = [outcomeLog EXCEPT ![r] =
                            IF nextRound THEN NewFanOut(LogOutcome(@, a, o))
                            ELSE LogOutcome(@, a, o)]
       /\ IF q.threw
          THEN /\ result' = [result EXCEPT ![r] = FailedResult(q.value)]
               /\ pc' = [pc EXCEPT ![r] = "done"]
               /\ settled' = [settled EXCEPT ![r] = NoPromises]
               /\ UNCHANGED <<discussionHistory, round, finalConsensus, prompt>>
          ELSE IF a < Len(preConfiguredAdvisors)
          THEN /\ settled' = [settled EXCEPT ![r] = NextQueried(pushed, a)]
               /\ UNCHANGED <<discussionHistory, round, finalConsensus, prompt,
                              result, pc>>
          ELSE /\ discussionHistory' = history
               /\ finalConsensus' = [finalConsensus EXCEPT ![r] = consensus]
               /\ round' = [round EXCEPT ![r] = n]
               /\ IF verdict = "return"
                  THEN /\ result' = [result EXCEPT ![r] =
                             ToolRequestsResult(round[r], allToolRequests, history)]
                       /\ pc' = [pc EXCEPT ![r] = "done"]
                       /\ settled' = [settled EXCEPT ![r] = NoPromises]
                       /\ UNCHANGED prompt
                  ELSE IF nextRound
                  THEN /\ settled' = [settled EXCEPT ![r] = FirstQueried]
                       /\ prompt' = [prompt EXCEPT ![r] =
                             initialPrompt(n, <<>>, <<>>,
                                           generateDiscussionContext(history))]
                       /\ UNCHANGED <<result, pc>>
                  ELSE /\ result' = [result EXCEPT ![r] =
                             FinalResult(consensus, history, <<>>)]
                       /\ pc' = [pc EXCEPT ![r] = "done"]
                       /\ settled' = [settled EXCEPT ![r] = NoPromises]
                       /\ UNCHANGED prompt

SettleAdvisorSeq(r, a, o) ==
    /\ pc[r] = "round"
    /\ settled[r][a].status = "pending"
    /\ LET q == queryAdvisor(o)
       IN  PushResponseSeq(r, a, o, q, parseToolRequests(q.value))
    /\ UNCHANGED <<maxRounds, consensusThreshold, arguments, summaryPasses, evalVars>>

(***************************************************************************)
(* The server of src/index.ts receiving one request.  The requests: with   *)
(* the required fields only, and with every pair of a round limit and a    *)
(* threshold of the sets below.                                            *)
(***************************************************************************)
ProblemP == JsString(<<"P">>)
ToolsOne == JsArray(<< <<"web_search">> >>)

SeqMaxRounds ==
    {JsUndefined, JsNum(0, 1), JsString(<<"5">>)} \cup {JsNum(n, 1) : n \in 1..MaxRoundsCfg}

SeqThresholds ==
    {JsUndefined, JsNum(0, 1), JsNum(3, 5), JsNum(4, 5), JsNum(1, 1), JsNum(3, 2),
     JsNum(0 - 1, 2)}

SeqInputs ==
    {InputObjectSeq(ProblemP, ToolsOne, m, t) : m \in SeqMaxRounds, t \in SeqThresholds}
        \cup {InputObjectSeq(JsString(<<>>), ToolsOne, JsNum(1, 1), JsNum(4, 5)),
              InputObjectSeq(ProblemP, JsUndefined, JsNum(1, 1), JsNum(4, 5))}

TextB == <<"B">>

\* a failed query ends the call, so a round without consensus needs two texts
SeqOutcomes == RoundOutcomes \cup {Ok(TextB)}

NextSeq ==
    \/ \E r \in SoloRuns, input \in SeqInputs : ProcessConsensusSeq(r, input)
    \/ \E r \in SoloRuns, a \in Advisors, o \in SeqOutcomes : SettleAdvisorSeq(r, a, o)

SpecSeq == InitSeq /\ [][NextSeq]_vars

(***************************************************************************)
(* The same server with requests whose round limit is the maximum of the   *)
(* schema or above it, and advisors that never agree: each one answers     *)
(* with its own id, or its query fails.                                    *)
(***************************************************************************)
LimitMaxRounds == {JsNum(MaxRoundsLimit, 1), JsNum(MaxRoundsLimit + 1, 1)}

LimitThresholds == {JsNum(3, 5), JsNum(4, 5), JsNum(1, 1)}

LimitInputs ==
    {InputObjectSeq(ProblemP, ToolsOne, m, t) : m \in LimitMaxRounds, t \in LimitThresholds}

OwnOutcomes(a) == {Ok(<<preConfiguredAdvisors[a]>>), Err(<<"timeout">>)}

NextSeqLimit ==
    \/ \E r \in SoloRuns, input \in LimitInputs : ProcessConsensusSeq(r, input)
    \/ \E r \in SoloRuns, a \in Advisors :
            \E o \in OwnOutcomes(a) : SettleAdvisorSeq(r, a, o)

SpecSeqLimit == InitSeq /\ [][NextSeqLimit]_vars

(***************************************************************************)
(* The server with advisors whose completions tell them apart: advisor a   *)
(* answers a round with the text "A" after a spaces, with a directive for  *)
(* a tool that has its name, or with its name, and answers the summary     *)
(* pass with its name or fails.  The padded texts differ and normalize to  *)
(* the same text; the invocations settle in any order.                     *)
(***************************************************************************)
Padded(a) == [i \in 1..a |-> " "] \o TextA

DirectiveOf(a) == [DirectiveGood EXCEPT ![7] = preConfiguredAdvisors[a]]

OrderOutcomes(a) ==
    {Ok(Padded(a)), Ok(DirectiveOf(a)), Ok(<<preConfiguredAdvisors[a]>>)}

NextOrder ==
    \/ \E r \in SoloRuns, input \in Inputs : ProcessConsensus(r, input)
    \/ \E r \in SoloRuns, a \in Advisors :
            \E o \in OrderOutcomes(a) : SettleAdvisor(r, a, o)
    \/ \E r \in SoloRuns : JoinRound(r)
    \/ \E r \in SoloRuns, a \in Advisors :
            \E o \in OwnOutcomes(a) : SettleSummary(r, a, o)
    \/ \E r \in SoloRuns : JoinSummary(r)

SpecOrder == Init /\ [][NextOrder]_vars

(***************************************************************************)
(* The server with advisors that answer the summary pass with the summary  *)
(* text or with a directive.                                               *)
(***************************************************************************)
DirectiveSummaryOutcomes == {Ok(TextSummary), Ok(DirectiveGood)}

NextSummaries ==
    \/ \E r \in SoloRuns, input \in Inputs : ProcessConsensus(r, input)
    \/ \E r \in SoloRuns, a \in Advisors, o \in OverlapOutcomes : SettleAdvisor(r, a, o)
    \/ \E r \in SoloRuns : JoinRound(r)
    \/ \E r \in SoloRuns, a \in Advisors, o \in DirectiveSummaryOutcomes :
            SettleSummary(r, a, o)
    \/ \E r \in SoloRuns : JoinSummary(r)

SpecSummaries == Init /\ [][NextSummaries]_vars

(***************************************************************************)
(* checkConsensus on its own: the arguments are drawn from every list of   *)
(* at most MaxResponses responses over EvalTexts and every threshold of    *)
(* EvalThresholds, and the one action applies the function.                *)
(***************************************************************************)
EvalTexts ==
    { <<"A">>, <<" ", "a">>, <<"B">>, <<"4", "2">>, <<"constructor">>, <<"__proto__">> }

EvalThresholds ==
    { [num |-> 0, den |-> 1], [num |-> 3, den |-> 5],
      [num |-> 4, den |-> 5], [num |-> 1, den |-> 1] }

AsResponses(texts) ==
    [i \in 1..Len(texts) |->
        [advisorId |-> "advisor", response |-> texts[i], toolRequests |-> <<>>]]

EvalResponseLists ==
    {AsResponses(texts) : texts \in UNION {[1..n -> EvalTexts] : n \in 0..MaxResponses}}

InitEval ==
    /\ InitOrch
    /\ maxRounds = 1
    /\ consensusThreshold = [num |-> 4, den |-> 5]
    /\ evalResponses \in EvalResponseLists
    /\ evalThreshold \in EvalThresholds
    /\ evalResult = None
    /\ parseParts = <<>>
    /\ parseResult = None

CheckConsensusCall ==
    /\ evalResult = None
    /\ evalResult' = Some(checkConsensus(evalResponses, evalThreshold))
    /\ UNCHANGED <<evalResponses, evalThreshold, parseParts, parseResult, orchVars>>

NextEval == CheckConsensusCall

SpecEval == InitEval /\ [][NextEval]_vars

(***************************************************************************)
(* parseToolRequests on its own: the response is drawn from the texts made *)
(* of at most MaxParts parts (prose, a directive, a directive whose        *)
(* parameters are not JSON, a directive that breaks off inside its         *)
(* parameters, a directive with the empty object as parameters, a          *)
(* directive with an object inside its parameters) separated by a space,   *)
(* and the one action applies the function.                                *)
(***************************************************************************)
MaxParts == 3

\* the text breaks off after the first member of the parameters
DirectiveOpen ==
    <<"TOOL_REQUEST:", " ", "{", "\"tool\":", " ", "\"", "calc", "\"", ",", " ",
      "\"parameters\":", " ", "{", "\"", "a", "\"", ":", " ", "1">>

\* the parameters are the empty object
DirectiveEmpty ==
    <<"TOOL_REQUEST:", " ", "{", "\"tool\":", " ", "\"", "list_files", "\"", ",", " ",
      "\"parameters\":", " ", "{", "}",
      ",", " ", "\"reason\":", " ", "\"", "inspect", "\"", "}">>

\* the parameters hold an object: {"filter": {"id": 1}}
DirectiveNested ==
    <<"TOOL_REQUEST:", " ", "{", "\"tool\":", " ", "\"", "db_query", "\"", ",", " ",
      "\"parameters\":", " ", "{", "\"", "filter", "\"", ":", " ",
      "{", "\"", "id", "\"", ":", " ", "1", "}", "}",
      ",", " ", "\"reason\":", " ", "\"", "lookup", "\"", "}">>

ParseParts ==
    {TextA, DirectiveGood, DirectiveBad, DirectiveOpen, DirectiveEmpty, DirectiveNested}

ParsePartLists == UNION {[1..n -> ParseParts] : n \in 0..MaxParts}

\* the response argument
ParseResponse == Join(parseParts, <<" ">>)

InitParse ==
    /\ InitOrch
    /\ maxRounds = 1
    /\ consensusThreshold = [num |-> 4, den |-> 5]
    /\ evalResponses = <<>>
    /\ evalThreshold = [num |-> 0, den |-> 1]
    /\ evalResult = None
    /\ parseParts \in ParsePartLists
    /\ parseResult = None

ParseToolRequestsCall ==
    /\ parseResult = None
    /\ parseResult' = Some(parseToolRequests(ParseResponse))
    /\ UNCHANGED <<evalResponses, evalThreshold, evalResult, parseParts, orchVars>>

NextParse == ParseToolRequestsCall

SpecParse == InitParse /\ [][NextParse]_vars

(***************************************************************************)
(* Vocabulary of the properties.                                           *)
(***************************************************************************)
\* the normalized text of the i-th response given to checkConsensus
EvalNorm(i) == Trim(ToLowerCase(evalResponses[i].response))

EvalAllIdentical ==
    \A i, j \in 1..Len(evalResponses) : EvalNorm(i) = EvalNorm(j)

\* the number of responses whose normalized text is that of the i-th
EvalClusterSize(i) ==
    Cardinality({j \in 1..Len(evalResponses) : EvalNorm(j) = EvalNorm(i)})

EvalMaxCount == SetMax({EvalClusterSize(i) : i \in 1..Len(evalResponses)})

EvalReturned == evalResult # None

\* call r passed validation: it has fanned out at least once
Passed(r) == outcomeLog[r] # <<>>

FinalStatuses == {"consensus_reached", "max_rounds_reached"}

Finished(r) == pc[r] = "done" /\ result[r].status \in FinalStatuses
Awaiting(r) == pc[r] = "done" /\ result[r].status = "tool_requests_needed"

\* the number of evaluated rounds in the ledger of call 1 (the summary round
\* is the last round of a finished call)
Evaluated ==
    IF Finished(1) THEN Len(discussionHistory) - 1 ELSE Len(discussionHistory)

\* advisor a's invocation in the k-th fan-out of call 1 threw
Failed(k, a) == outcomeLog[1][k][a].done /\ ~outcomeLog[1][k][a].ok

EndsWith(text, suffix) ==
    /\ Len(text) >= Len(suffix)
    /\ SubSeq(text, Len(text) - Len(suffix) + 1, Len(text)) = suffix

HasConsensus(k) == discussionHistory[k].consensus # None

HasToolRequests(k) ==
    \E a \in 1..Len(discussionHistory[k].responses) :
        discussionHistory[k].responses[a].toolRequests # <<>>

\* the valid directives of advisor a's response in round k
ValidDirectives(k, a) ==
    IF outcomeLog[1][k][a].ok
    THEN parseToolRequests(discussionHistory[k].responses[a].response)
    ELSE <<>>

(***************************************************************************)
(* C1.  checkConsensus, unanimity: a round of two or more responses whose  *)
(* lower-cased, trimmed texts are all identical has hasConsensus = true,   *)
(* whatever the threshold.                                                 *)
(***************************************************************************)
C1_Unanimity ==
    (EvalReturned /\ Len(evalResponses) >= 2 /\ EvalAllIdentical)
        => evalResult[1].hasConsensus

\* a unanimous round whose original texts differ, under threshold 1
C1_Witness ==
    /\ EvalReturned /\ Len(evalResponses) >= 2 /\ EvalAllIdentical
    /\ \E i, j \in 1..Len(evalResponses) :
            evalResponses[i].response # evalResponses[j].response
    /\ evalThreshold = [num |-> 1, den |-> 1]
    /\ evalResult[1].hasConsensus

(***************************************************************************)
(* C2.  checkConsensus, threshold rule: a round of two or more responses   *)
(* that are not all identical after normalization has hasConsensus = true  *)
(* if and only if maxCount / n >= threshold.                               *)
(***************************************************************************)
C2_ThresholdRule ==
    (EvalReturned /\ Len(evalResponses) >= 2 /\ ~EvalAllIdentical)
        => (evalResult[1].hasConsensus
                <=> EvalMaxCount * evalThreshold.den
                        >= evalThreshold.num * Len(evalResponses))

(***************************************************************************)
(* C3.  checkConsensus, returned text: when consensus is declared the      *)
(* returned text is the original text of the earliest response of a        *)
(* largest cluster (of the first response when the round is unanimous).    *)
(***************************************************************************)
C3_ReturnedText ==
    (EvalReturned /\ evalResult[1].hasConsensus)
        => /\ evalResult[1].consensus # None
           /\ IF EvalAllIdentical
              THEN evalResult[1].consensus[1] = evalResponses[1].response
              ELSE \E i \in 1..Len(evalResponses) :
                      /\ EvalClusterSize(i) = EvalMaxCount
                      /\ \A j \in 1..(i - 1) : EvalNorm(j) # EvalNorm(i)
                      /\ evalResult[1].consensus[1] = evalResponses[i].response

(***************************************************************************)
(* C4.  Failure-marker responses do not count toward agreement: the        *)
(* consensus of every evaluated round is the one the evaluator finds among *)
(* the responses of the advisors whose invocation succeeded.               *)
(***************************************************************************)
SucceededResponses(k) ==
    Flatten([a \in Advisors |->
                IF outcomeLog[1][k][a].ok
                THEN <<discussionHistory[k].responses[a]>> ELSE <<>>])

C4_FailureMarkersExcluded ==
    Passed(1) =>
        \A k \in 1..Evaluated :
            discussionHistory[k].consensus =
                checkConsensus(SucceededResponses(k), consensusThreshold).consensus

(***************************************************************************)
(* C5.  One response per agent: every round of the ledger of a call that   *)
(* passed validation holds one response for each advisor of the roster, in *)
(* roster order and under that advisor's id.                               *)
(***************************************************************************)
C5_OneResponsePerAgent ==
    Passed(1) =>
        \A k \in 1..Len(discussionHistory) :
            /\ Len(discussionHistory[k].responses) = Len(preConfiguredAdvisors)
            /\ \A a \in Advisors :
                  discussionHistory[k].responses[a].advisorId = preConfiguredAdvisors[a]

\* a finished call with a failed invocation in round 1 and in the summary pass
C5_Witness ==
    /\ Finished(1)
    /\ \E a \in Advisors : Failed(1, a)
    /\ \E a \in Advisors : Failed(Len(outcomeLog[1]), a)
    /\ \E a \in Advisors : ~Failed(Len(outcomeLog[1]), a)

(***************************************************************************)
(* C6.  Agent failures are never fatal: a call that passed validation      *)
(* never resolves to status failed, and the response recorded for a failed *)
(* invocation ends with the failure's message.                             *)
(***************************************************************************)
C6_FailuresNotFatal ==
    Passed(1) =>
        /\ pc[1] = "done" =>
              result[1].status \in FinalStatuses \cup {"tool_requests_needed"}
        /\ \A k \in 1..Len(discussionHistory), a \in Advisors :
              Failed(k, a) =>
                 /\ a <= Len(discussionHistory[k].responses)
                 /\ outcomeLog[1][k][a].content # <<>>
                 /\ EndsWith(discussionHistory[k].responses[a].response,
                             outcomeLog[1][k][a].content)

\* every invocation of a call failed, in its rounds and in its summary pass
C6_Witness ==
    /\ Finished(1)
    /\ \A k \in 1..Len(outcomeLog[1]), a \in Advisors : Failed(k, a)

(***************************************************************************)
(* C7.  Ledger bound: the ledger never holds more rounds than the          *)
(* configured round limit plus one.                                        *)
(***************************************************************************)
C7_LedgerBound == Len(discussionHistory) <= maxRounds + 1

\* the bound is met, under the largest round limit of the model
C7_Witness ==
    /\ Passed(1)
    /\ maxRounds = MaxRoundsCfg
    /\ Len(discussionHistory) = maxRounds + 1

(***************************************************************************)
(* C8.  Priority of consensus over directives.  For every evaluated round  *)
(* k of a call: with consensus, k is the last evaluated round and the call *)
(* goes to the consensus outcome; without consensus and with tool          *)
(* requests, k is the last round and the call has returned them for round  *)
(* k; with neither, the call went on to round k + 1 or, at the round       *)
(* limit, to the summary pass.                                             *)
(***************************************************************************)
C8_ConsensusBeforeDirectives ==
    Passed(1) =>
        \A k \in 1..Evaluated :
            /\ HasConsensus(k) =>
                  /\ k = Evaluated
                  /\ pc[1] \in {"summary", "done"}
                  /\ finalConsensus[1] = discussionHistory[k].consensus
                  /\ pc[1] = "done" => result[1].status = "consensus_reached"
            /\ (~HasConsensus(k) /\ HasToolRequests(k)) =>
                  /\ k = Len(discussionHistory)
                  /\ Awaiting(1)
                  /\ result[1].round = k
                  /\ round[1] = k
            /\ (~HasConsensus(k) /\ ~HasToolRequests(k)) =>
                  \/ k < Evaluated
                  \/ pc[1] = "round" /\ round[1] = k + 1 /\ k < maxRounds
                  \/ /\ k = maxRounds
                     /\ pc[1] \in {"summary", "done"}
                     /\ pc[1] = "done" => result[1].status = "max_rounds_reached"

\* a call that reached consensus in a round that carried tool requests
C8_Witness ==
    /\ Finished(1)
    /\ result[1].status = "consensus_reached"
    /\ HasConsensus(Evaluated)
    /\ HasToolRequests(Evaluated)

(***************************************************************************)
(* C9.  Aggregation of directives: a round without consensus makes the     *)
(* call return tool requests if and only if some advisor's response of     *)
(* that round holds a valid directive, and the returned list is the valid  *)
(* directives of that round's responses, in roster order.                  *)
(***************************************************************************)
C9_Aggregation ==
    Passed(1) =>
        /\ \A k \in 1..Evaluated :
              ~HasConsensus(k) =>
                  ((\E a \in Advisors : ValidDirectives(k, a) # <<>>)
                       <=> (Awaiting(1) /\ k = Len(discussionHistory)))
        /\ Awaiting(1) =>
              /\ result[1].toolRequests # <<>>
              /\ result[1].toolRequests =
                    Flatten([a \in Advisors |->
                                ValidDirectives(Len(discussionHistory), a)])

\* tool requests returned in round 2, from the responses of two advisors; each
\* response also held a malformed directive, which is not in the list
C9_Witness ==
    /\ Awaiting(1)
    /\ result[1].round = 2
    /\ Len(result[1].toolRequests) = 2
    /\ \E a \in Advisors : ValidDirectives(2, a) = <<>>

(***************************************************************************)
(* C10.  Summary pass entry: a call that ends with consensus_reached or    *)
(* max_rounds_reached has made exactly one summary pass, in which every    *)
(* advisor was invoked once more and which added one round to the ledger;  *)
(* a call whose last round had tool requests and no consensus, or that     *)
(* failed validation, makes no summary pass.                               *)
(***************************************************************************)
C10_SummaryPassEntry ==
    /\ summaryPasses[1] \in {0, 1}
    /\ Finished(1) =>
          /\ summaryPasses[1] = 1
          /\ Len(outcomeLog[1]) = Len(discussionHistory)
          /\ Evaluated = Len(outcomeLog[1]) - 1
          /\ \A a \in Advisors : outcomeLog[1][Len(outcomeLog[1])][a].done
    /\ (pc[1] = "done" /\ ~Finished(1)) => summaryPasses[1] = 0
    /\ (Passed(1) /\ Evaluated >= 1 /\ ~HasConsensus(Evaluated)
            /\ HasToolRequests(Evaluated)) =>
          /\ summaryPasses[1] = 0
          /\ Len(discussionHistory) = Evaluated

\* a call that finished at the round limit without consensus after its pass
C10_Witness ==
    /\ Finished(1)
    /\ result[1].status = "max_rounds_reached"
    /\ summaryPasses[1] = 1
    /\ Len(discussionHistory) = maxRounds + 1

(***************************************************************************)
(* C11.  Summary round and round count: in the ledger of a call that ended *)
(* with consensus_reached or max_rounds_reached the last round is the      *)
(* round of the summary pass, numbered after the evaluated rounds and      *)
(* holding the summaries; its consensus is the consensus the loop decided, *)
(* absent when no round had one; totalRounds is the length of the returned *)
(* ledger, one more than the number of evaluated rounds.                   *)
(***************************************************************************)
\* the number of fan-outs of call 1 that were rounds of the loop
LoopRounds == Len(outcomeLog[1]) - summaryPasses[1]

\* the consensus decided by the rounds of the loop, None when there is none
LoopConsensus ==
    LET with == {k \in 1..LoopRounds : discussionHistory[k].consensus # None}
    IN  IF with = {} THEN None ELSE discussionHistory[SetMax(with)].consensus

C11_SummaryRound ==
    Finished(1) =>
        LET n == Len(discussionHistory) IN
        /\ n = LoopRounds + 1
        /\ discussionHistory[n].round = n
        /\ \A a \in Advisors :
              /\ a <= Len(discussionHistory[n].responses)
              /\ EndsWith(discussionHistory[n].responses[a].response,
                          outcomeLog[1][n][a].content)
        /\ discussionHistory[n].consensus = LoopConsensus
        /\ result[1].discussionHistory = discussionHistory
        /\ result[1].totalRounds = n
        /\ result[1].totalRounds = LoopRounds + 1

\* consensus in round 1: two rounds in the ledger, the second with the
\* consensus of the first
C11_Witness ==
    /\ Finished(1)
    /\ result[1].status = "consensus_reached"
    /\ LoopRounds = 1
    /\ result[1].totalRounds = 2
    /\ discussionHistory[2].consensus = discussionHistory[1].consensus
    /\ discussionHistory[2].consensus # None

(***************************************************************************)
(* C12.  Consensus outcome: when checkConsensus has hasConsensus = true    *)
(* for the responses of an evaluated round, that round is the last         *)
(* evaluated round, the call goes to the summary pass and ends with status *)
(* consensus_reached, and its finalConsensus is the consensus text of that *)
(* round and not the no-consensus text; also when the completions hold no  *)
(* content or blank content.                                               *)
(***************************************************************************)
DeclaresConsensus(k) ==
    checkConsensus(discussionHistory[k].responses, consensusThreshold).hasConsensus

C12_ConsensusOutcome ==
    Passed(1) =>
        \A k \in 1..LoopRounds :
            (k <= Len(discussionHistory) /\ DeclaresConsensus(k)) =>
                /\ k = LoopRounds
                /\ discussionHistory[k].consensus # None
                /\ pc[1] \in {"summary", "done"}
                /\ summaryPasses[1] = 1
                /\ pc[1] = "done" =>
                      /\ result[1].status = "consensus_reached"
                      /\ result[1].finalConsensus = discussionHistory[k].consensus[1]
                      /\ result[1].finalConsensus # NoConsensusText

\* consensus in round 2 on the default text of completions without content
C12_Witness ==
    /\ Finished(1)
    /\ LoopRounds = 2
    /\ DeclaresConsensus(2)
    /\ result[1].status = "consensus_reached"
    /\ result[1].finalConsensus = <<"No response received">>

(***************************************************************************)
(* C13.  Round-limit outcome: a call that passed validation ends with      *)
(* status max_rounds_reached if and only if it evaluated exactly maxRounds *)
(* rounds and none of them had consensus or a valid directive; its         *)
(* finalConsensus is then the no-consensus text and no round of the ledger *)
(* has a consensus.                                                        *)
(***************************************************************************)
CarriesDirective(k) == \E a \in Advisors : ValidDirectives(k, a) # <<>>

C13_RoundLimitOutcome ==
    (Passed(1) /\ pc[1] = "done") =>
        /\ result[1].status = "max_rounds_reached"
              <=> /\ LoopRounds = maxRounds
                  /\ \A k \in 1..LoopRounds :
                        ~DeclaresConsensus(k) /\ ~CarriesDirective(k)
        /\ result[1].status = "max_rounds_reached" =>
              /\ result[1].finalConsensus = NoConsensusText
              /\ \A k \in 1..Len(discussionHistory) :
                    discussionHistory[k].consensus = None

\* the round limit reached with a failed invocation in the last round, under
\* the largest round limit of the model
C13_Witness ==
    /\ Passed(1) /\ pc[1] = "done"
    /\ result[1].status = "max_rounds_reached"
    /\ maxRounds = MaxRoundsCfg
    /\ LoopRounds = maxRounds
    /\ \E a \in Advisors : Failed(maxRounds, a)
    /\ result[1].finalConsensus = NoConsensusText

(***************************************************************************)
(* C14.  Validation failure: a call whose problem is missing, not a string *)
(* or the empty string, or whose availableTools is missing or not an       *)
(* array, resolves to status failed with the message of the validation and *)
(* isError set; no advisor is invoked, no round is run, and the result     *)
(* carries no ledger.                                                      *)
(***************************************************************************)
\* the arguments have properties (reading one does not throw)
HasProperties(i) == i.kind \in {"object", "primitive"}

ProblemInvalid(i) == i.problem.t # "string" \/ i.problem.s = <<>>
ToolsInvalid(i) == i.availableTools.t # "array"

C14_ValidationFailure ==
    (HasProperties(arguments[1])
        /\ (ProblemInvalid(arguments[1]) \/ ToolsInvalid(arguments[1]))) =>
        /\ pc[1] = "done"
        /\ result[1].status = "failed"
        /\ result[1].isError
        /\ result[1].error =
              IF ProblemInvalid(arguments[1])
              THEN <<"Invalid problem: must be a string">>
              ELSE <<"Invalid availableTools: must be an array">>
        /\ outcomeLog[1] = <<>>
        /\ \A a \in Advisors : settled[1][a].status = "none"
        /\ round[1] = 0
        /\ result[1].discussionHistory = <<>>
        /\ result[1].totalRounds = 0

\* a call with a problem and without availableTools has failed
C14_Witness ==
    /\ arguments[1].kind = "object"
    /\ ~ProblemInvalid(arguments[1])
    /\ arguments[1].availableTools.t = "undefined"
    /\ result[1].status = "failed"
    /\ result[1].error = <<"Invalid availableTools: must be an array">>

(***************************************************************************)
(* C15.  Empty capability list.  As stated: a call whose availableTools is *)
(* an empty array resolves to status failed before any round is run.       *)
(***************************************************************************)
EmptyTools(i) ==
    /\ i.kind = "object"
    /\ i.availableTools.t = "array"
    /\ i.availableTools.items = <<>>

Statuses == FinalStatuses \cup {"tool_requests_needed", "failed"}

C16_StructuredResult ==
    /\ pc[1] = "done" =>
          /\ result[1].status \in Statuses
          /\ result[1].isError <=> result[1].status = "failed"
          /\ result[1].status = "failed" => result[1].error # <<>>
    /\ arguments[1].kind \in {"null", "undefined", "primitive"} =>
          pc[1] = "done" /\ result[1].status = "failed"

\* a call without arguments resolved with the message of the TypeError
C16_Witness ==
    /\ arguments[1] = InputUndefined
    /\ pc[1] = "done"
    /\ result[1].status = "failed"
    /\ result[1].isError
    /\ result[1].error =
          <<"Cannot read properties of ", "undefined", " (reading 'problem')">>

(***************************************************************************)
(* C17.  Join barrier: while a call waits on a fan-out every advisor of    *)
(* the roster has been invoked; a round is in the ledger only when every   *)
(* invocation of its fan-out has settled, and it holds the response of     *)
(* every one of them, so that none was cancelled and none left out of the  *)
(* evaluation.                                                             *)
(***************************************************************************)
Invoked(a) == settled[1][a].status \in {"pending", "fulfilled", "rejected"}
InFlight(a) == settled[1][a].status = "pending"

\* the text an invocation's outcome leaves at the end of the response
OutcomeText(o) == IF o.ok /\ o.content = <<>> THEN <<"No response received">>
                  ELSE o.content

C17_JoinBarrier ==
    /\ pc[1] \in {"round", "summary"} => \A a \in Advisors : Invoked(a)
    /\ Passed(1) =>
          \A k \in 1..Len(discussionHistory) :
              /\ k <= Len(outcomeLog[1])
              /\ Len(discussionHistory[k].responses) = Len(preConfiguredAdvisors)
              /\ \A a \in Advisors :
                    /\ outcomeLog[1][k][a].done
                    /\ EndsWith(discussionHistory[k].responses[a].response,
                                OutcomeText(outcomeLog[1][k][a]))

\* round 2 is waiting: some of its invocations have settled, one has not, and
\* the ledger holds round 1 only
C17_Witness ==
    /\ pc[1] = "round"
    /\ round[1] = 2
    /\ Len(discussionHistory) = 1
    /\ \E a \in Advisors : InFlight(a)
    /\ \E a \in Advisors : settled[1][a].status = "fulfilled"

(***************************************************************************)
(* C18.  No cross-round concurrency: the fan-out of round N + 1, or of the *)
(* summary pass, exists only when the N rounds before it are in the        *)
(* ledger, and every invocation in flight belongs to the last fan-out.     *)
(***************************************************************************)
C18_NoCrossRound ==
    Passed(1) =>
        /\ pc[1] \in {"round", "summary"} =>
              Len(outcomeLog[1]) = Len(discussionHistory) + 1
        /\ pc[1] = "round" => round[1] = Len(outcomeLog[1])
        /\ pc[1] = "done" =>
              /\ Len(outcomeLog[1]) = Len(discussionHistory)
              /\ \A a \in Advisors : ~InFlight(a)
        /\ \A k \in 1..(Len(outcomeLog[1]) - 1), a \in Advisors :
              outcomeLog[1][k][a].done

\* the summary pass is in flight after the rounds of the largest round limit
C18_Witness ==
    /\ pc[1] = "summary"
    /\ maxRounds = MaxRoundsCfg
    /\ Len(discussionHistory) = maxRounds
    /\ \E a \in Advisors : InFlight(a)
    /\ \E a \in Advisors : ~InFlight(a)

(***************************************************************************)
(* C19.  Exclusive ledger ownership: the ledger and totalRounds that a     *)
(* call returns hold the rounds of that call's own fan-outs, one round for *)
(* each and in their order, also when another call ran on the server while *)
(* the call was waiting.                                                   *)
(***************************************************************************)
\* the k-th round of a returned ledger is the round of call r's k-th fan-out
OwnRound(r, history, k) ==
    /\ k <= Len(history)
    /\ history[k].round = k
    /\ \A a \in Advisors :
          /\ a <= Len(history[k].responses)
          /\ EndsWith(history[k].responses[a].response,
                      OutcomeText(outcomeLog[r][k][a]))

C19_ExclusiveLedger ==
    \A r \in RunIds :
        /\ Finished(r) =>
              /\ result[r].totalRounds = Len(outcomeLog[r])
              /\ Len(result[r].discussionHistory) = Len(outcomeLog[r])
              /\ \A k \in 1..Len(outcomeLog[r]) :
                    OwnRound(r, result[r].discussionHistory, k)
        /\ Awaiting(r) =>
              result[r].discussionSummary[1].totalRounds = Len(outcomeLog[r])

(***************************************************************************)
(* C20.  Termination: when every advisor invocation eventually settles, a  *)
(* call that is waiting on a fan-out eventually resolves, and it makes at  *)
(* most maxRounds round fan-outs and at most one summary fan-out.          *)
(***************************************************************************)
C20_Termination ==
    /\ [](Passed(1) => (LoopRounds <= maxRounds /\ summaryPasses[1] <= 1))
    /\ (pc[1] \in {"round", "summary"}) ~> (pc[1] = "done")

\* a call resolved after the rounds of the largest round limit and the pass
C20_Witness ==
    /\ pc[1] = "done"
    /\ result[1].status \in FinalStatuses
    /\ Len(outcomeLog[1]) = MaxRoundsCfg + 1
    /\ result[1].totalRounds = MaxRoundsCfg + 1

(***************************************************************************)
(* C21.  No engine timeout: while an advisor invocation of a round is in   *)
(* flight no step evaluates the round, appends to the ledger or resolves   *)
(* the call; so if the invocation never settles the round stays            *)
(* unevaluated and the call unresolved for ever, even when every other     *)
(* advisor has responded with the same text.                               *)
(***************************************************************************)
HungInRound(a) == pc[1] = "round" /\ InFlight(a)

C21_NoEngineTimeout ==
    /\ [][(\E a \in Advisors : HungInRound(a)) =>
              /\ UNCHANGED <<discussionHistory, result, pc, round, finalConsensus>>
              /\ Len(outcomeLog'[1]) = Len(outcomeLog[1])]_vars
    /\ \A a \in Advisors :
          <>[]HungInRound(a) =>
              <>[](/\ pc[1] = "round"
                   /\ result[1] = NoResult
                   /\ Len(discussionHistory) = round[1] - 1)

\* round 2 waits on one invocation; every other advisor has responded, all
\* with the same text
C21_Witness ==
    /\ pc[1] = "round"
    /\ round[1] = 2
    /\ Cardinality({a \in Advisors : InFlight(a)}) = 1
    /\ \A a, b \in Advisors :
          (~InFlight(a) /\ ~InFlight(b)) =>
              /\ settled[1][a].status = "fulfilled"
              /\ settled[1][a].response = settled[1][b].response
    /\ Len(discussionHistory) = 1
    /\ result[1] = NoResult

(***************************************************************************)
(* C22.  Malformed directive tolerance: parseToolRequests returns, for     *)
(* every response, the requests of the well-formed directives of the       *)
(* response, in their order, whatever malformed directives stand beside    *)
(* them: a response with one well-formed and one unparsable directive      *)
(* yields exactly one request.                                             *)
(***************************************************************************)
\* the request that the well-formed directive of the model stands for
GoodRequest ==
    [tool |-> <<"web_search">>,
     parameters |-> <<[k |-> <<"query">>, v |-> <<"string", "x">>]>>,
     reason |-> <<"research">>]

WellFormedRequests ==
    Flatten([i \in 1..Len(parseParts) |->
                IF parseParts[i] = DirectiveGood THEN <<GoodRequest>> ELSE <<>>])

C22_MalformedTolerance ==
    parseResult # None => parseResult[1] = WellFormedRequests

(***************************************************************************)
(* C23.  Determinism: the value a call resolves to (status, consensus      *)
(* text, totalRounds, ledger) is a function of the configuration and of    *)
(* the outcome of each advisor's invocation in each fan-out, whatever the  *)
(* order in which the invocations settled.  The function is the loop run   *)
(* over the logged outcomes, the advisors taken in the order of the        *)
(* roster.                                                                 *)
(***************************************************************************)
LoggedOutcome(l) == [ok |-> l.ok, content |-> l.content]

ReplayResponses(fanout) ==
    [a \in Advisors |-> RoundResponse(RoundTask(a, LoggedOutcome(fanout[a])))]

ReplayRequests(fanout) ==
    Flatten([a \in Advisors |-> RoundTask(a, LoggedOutcome(fanout[a])).toolRequests])

ReplaySummary(fanout, history, consensus) ==
    LET ps == [a \in Advisors |-> SummaryTask(a, LoggedOutcome(fanout[a]))]
        ledger == Append(history, [round |-> Len(history) + 1,
                                   responses |-> SummaryResponses(ps),
                                   consensus |-> consensus])
    IN  FinalResult(consensus, ledger, FinalSummaryVariations(ps))

RECURSIVE ReplayLoop(_, _, _)
ReplayLoop(log, k, history) ==
    LET responses == ReplayResponses(log[k])
        requests == ReplayRequests(log[k])
        verdict == checkConsensus(responses, consensusThreshold)
        ledger == Append(history, [round |-> k, responses |-> responses,
                                   consensus |-> verdict.consensus])
    IN  IF verdict.hasConsensus
        THEN ReplaySummary(log[k + 1], ledger, verdict.consensus)
        ELSE IF requests # <<>>
        THEN ToolRequestsResult(k, requests, ledger)
        ELSE IF k < maxRounds
        THEN ReplayLoop(log, k + 1, ledger)
        ELSE ReplaySummary(log[k + 1], ledger, None)

C23_Determinism ==
    (Passed(1) /\ pc[1] = "done") =>
        LET expected == ReplayLoop(outcomeLog[1], 1, <<>>) IN
        /\ result[1].status = expected.status
        /\ result[1].finalConsensus = expected.finalConsensus
        /\ result[1].totalRounds = expected.totalRounds
        /\ result[1].discussionHistory = expected.discussionHistory
        /\ result[1] = expected

\* a call that ended at the largest round limit; in its first round the
\* advisors' outcomes were not all the same, and one invocation failed
C23_Witness ==
    /\ Finished(1)
    /\ LoopRounds = MaxRoundsCfg
    /\ \E a, b \in Advisors : outcomeLog[1][1][a] # outcomeLog[1][1][b]
    /\ \E a \in Advisors : Failed(1, a)
    /\ result[1] = ReplayLoop(outcomeLog[1], 1, <<>>)

(***************************************************************************)
(* C24.  Append-only ledger: every step of a call that is running leaves   *)
(* the rounds of the ledger as they are and adds at most one round at the  *)
(* end, and the ledger of the result of a finished call is the ledger as   *)
(* it then stands.                                                         *)
(***************************************************************************)
IsPrefix(s, t) == Len(s) <= Len(t) /\ SubSeq(t, 1, Len(s)) = s

C24_AppendOnly ==
    /\ [][pc[1] \in {"round", "summary"} =>
              /\ IsPrefix(discussionHistory, discussionHistory')
              /\ Len(discussionHistory') <= Len(discussionHistory) + 1]_vars
    /\ [](Finished(1) =>
              /\ result[1].discussionHistory = discussionHistory
              /\ \A k \in 1..Len(discussionHistory) : discussionHistory[k].round = k)

\* a finished call whose consensus came in round 2: round 1 is still in the
\* returned ledger without a consensus
C24_Witness ==
    /\ Finished(1)
    /\ Len(result[1].discussionHistory) = 3
    /\ result[1].discussionHistory[1].consensus = None
    /\ result[1].discussionHistory[2].consensus # None
    /\ result[1].discussionHistory[1].responses = ReplayResponses(outcomeLog[1][1])

(***************************************************************************)
(* C25.  Schema defaults in src/index.ts: a request with a non-empty       *)
(* problem and an array of tools and without maxRounds and                 *)
(* consensusThreshold passes validation and runs with a round limit of 5   *)
(* and a threshold of 0.8.                                                 *)
(***************************************************************************)
OnlyRequired(i) ==
    /\ i.kind = "object"
    /\ ~ProblemInvalid(i) /\ ~ToolsInvalid(i)
    /\ i.maxRounds.t = "undefined"
    /\ i.consensusThreshold.t = "undefined"

C25_SchemaDefaults ==
    OnlyRequired(arguments[1]) =>
        /\ Passed(1)
        /\ maxRounds = 5
        /\ consensusThreshold = [num |-> 4, den |-> 5]

(***************************************************************************)
(* C26.  Threshold range in src/index.ts: of the requests whose other      *)
(* fields are valid, those with a numeric consensusThreshold in [0, 1],    *)
(* 0 and 1 included, pass validation, and those with a threshold outside   *)
(* it resolve to status failed before any advisor is queried.              *)
(***************************************************************************)
OtherFieldsValid(i) ==
    /\ i.kind = "object"
    /\ ~ProblemInvalid(i) /\ ~ToolsInvalid(i)
    /\ IsNumber(i.maxRounds) /\ i.maxRounds.num >= i.maxRounds.den

InUnitRange(v) == 0 <= v.num /\ v.num <= v.den

C26_ThresholdRange ==
    (OtherFieldsValid(arguments[1]) /\ IsNumber(arguments[1].consensusThreshold)) =>
        IF InUnitRange(arguments[1].consensusThreshold)
        THEN /\ Passed(1)
             /\ consensusThreshold = [num |-> arguments[1].consensusThreshold.num,
                                      den |-> arguments[1].consensusThreshold.den]
        ELSE /\ pc[1] = "done"
             /\ result[1].status = "failed"
             /\ outcomeLog[1] = <<>>

(***************************************************************************)
(* C27.  Round-limit range in src/index.ts: a request whose maxRounds is a *)
(* number outside 1..10 resolves to status failed before any advisor is    *)
(* queried, and no call evaluates more than 10 rounds.                     *)
(***************************************************************************)
OutOfRounds(v) ==
    IsNumber(v) /\ (v.num < v.den \/ v.num > MaxRoundsLimit * v.den)

C27_RoundLimitRange ==
    /\ (arguments[1].kind = "object" /\ OutOfRounds(arguments[1].maxRounds)) =>
          /\ pc[1] = "done"
          /\ result[1].status = "failed"
          /\ outcomeLog[1] = <<>>
    /\ Len(discussionHistory) <= MaxRoundsLimit

(***************************************************************************)
(* C28.  Simultaneous presentation in src/index.ts: in a round, when the   *)
(* query of some advisor has completed, the query of every advisor of the  *)
(* roster has been started.                                                *)
(***************************************************************************)
Completed(a) == settled[1][a].status \in {"fulfilled", "rejected"}

C28_SimultaneousPresentation ==
    (pc[1] = "round" /\ \E a \in Advisors : Completed(a)) =>
        \A a \in Advisors : Invoked(a)

(***************************************************************************)
(* C29.  Ledger reset between sequential runs: when a call that passes     *)
(* validation starts after an earlier call on the same server has          *)
(* resolved, the ledger it works on and the ledger it returns hold its own *)
(* rounds only, the first of them with index 1; this is so also when the   *)
(* earlier call ended asking for tools.                                    *)
(***************************************************************************)
\* the ledger holds rounds of call r's fan-outs only, one for each at most
OwnLedger(r, history) ==
    /\ Len(history) <= Len(outcomeLog[r])
    /\ \A k \in 1..Len(history) : OwnRound(r, history, k)

C29_LedgerReset ==
    (pc[1] = "done" /\ Passed(2)) =>
        /\ OwnLedger(2, discussionHistory)
        /\ pc[2] = "round" /\ round[2] = 1 => discussionHistory = <<>>
        /\ Finished(2) =>
              /\ OwnLedger(2, result[2].discussionHistory)
              /\ result[2].discussionHistory # <<>>
              /\ result[2].discussionHistory[1].round = 1
              /\ result[2].totalRounds = Len(outcomeLog[2])
        /\ Awaiting(2) =>
              /\ result[2].discussionSummary[1].totalRounds = Len(outcomeLog[2])
              /\ Len(discussionHistory) = 1
              /\ discussionHistory[1].round = 1

\* call 1 ended asking for tools, and call 2 has returned its own ledger
C29_Witness ==
    /\ Awaiting(1)
    /\ outcomeLog[1] # <<>>
    /\ Finished(2)
    /\ result[2].discussionHistory # <<>>

(***************************************************************************)
(* C30.  Context carry-forward: the prompt of round 1 is built from the    *)
(* problem and the names of the tools only; the prompt of a round k > 1 is *)
(* built from a context that lists the rounds 1..k-1 of the ledger in      *)
(* their order, each with one entry for each of its responses in their     *)
(* order, and an entry carries the first 200 characters of the response    *)
(* text and no more.                                                       *)
(***************************************************************************)
\* the first ContextLength characters of a text
Cut(text) ==
    [i \in 1..(IF Len(text) > ContextLength THEN ContextLength ELSE Len(text)) |->
        text[i]]

RECURSIVE EntriesUpTo(_, _)
\* the entries of the responses 1..i of round k of the ledger, in order
EntriesUpTo(k, i) ==
    IF i = 0 THEN <<>>
    ELSE EntriesUpTo(k, i - 1) \o
         <<"- Advisor ", discussionHistory[k].responses[i].advisorId, ": ">> \o
         Cut(discussionHistory[k].responses[i].response) \o <<"...\n">>

RECURSIVE RoundsUpTo(_)
\* the listing of the rounds 1..k of the ledger, in order
RoundsUpTo(k) ==
    IF k = 0 THEN <<>>
    ELSE RoundsUpTo(k - 1) \o <<"Round ", ToString(k), ":\n">> \o
         EntriesUpTo(k, Len(discussionHistory[k].responses)) \o <<"\n">>

RECURSIVE ToolNames(_)
\* the names of the tools, separated by a comma and a space
ToolNames(tools) ==
    IF tools = <<>> THEN <<>>
    ELSE IF Len(tools) = 1 THEN tools[1]
    ELSE tools[1] \o <<", ">> \o ToolNames(Tail(tools))

C30_ContextCarryForward ==
    (Passed(1) /\ pc[1] = "round") =>
        IF round[1] = 1
        THEN prompt[1] =
                <<"PROBLEM TO SOLVE:\n">> \o arguments[1].problem.s \o
                <<"\n\nAVAILABLE TOOLS:\n">> \o ToolNames(arguments[1].availableTools.items) \o
                <<"\n\nPlease provide your analysis and solution. [...]">>
        ELSE /\ Len(discussionHistory) = round[1] - 1
             /\ \A k \in 1..Len(discussionHistory) :
                   /\ discussionHistory[k].round = k
                   /\ Len(discussionHistory[k].responses) = NumAdvisors
             /\ prompt[1] =
                   <<"PREVIOUS DISCUSSION CONTEXT:\n", "Previous Discussion Summary:\n\n">> \o
                   RoundsUpTo(round[1] - 1) \o
                   <<"\n\nPlease review the previous discussion [...]">>

\* round 3 is prompted after two rounds without consensus and without
\* directive, the first with a response of more than 200 characters
C30_Witness ==
    /\ pc[1] = "round"
    /\ round[1] = 3
    /\ Len(discussionHistory) = 2
    /\ \A k \in 1..2 : discussionHistory[k].consensus = None
    /\ \E i \in Advisors : Len(discussionHistory[1].responses[i].response) > ContextLength
    /\ \E i \in Advisors : discussionHistory[2].responses[i].response = TextA

(***************************************************************************)
(* C31.  Summary-pass isolation: an advisor invocation that fails in the   *)
(* summary pass aborts neither the pass nor the call; the call ends with   *)
(* one of the two final statuses, and finalSummaryVariations and the       *)
(* summary round each hold one entry for each advisor of the roster, in    *)
(* roster order, the entry of a failed invocation being an error text that *)
(* ends with the reason of the failure.                                    *)
(***************************************************************************)
\* the outcome of advisor a in the summary pass of call 1
SummaryOutcome(a) == outcomeLog[1][Len(outcomeLog[1])][a]

\* text is what the summary pass records for the outcome l
SummaryEntryText(text, l) ==
    IF l.ok THEN text = OutcomeText(l)
    ELSE text # l.content /\ EndsWith(text, l.content)

C31_SummaryIsolation ==
    /\ (pc[1] = "summary" /\ \E a \in Advisors : SummaryOutcome(a).done) =>
          result[1] = NoResult
    /\ (pc[1] = "done" /\ summaryPasses[1] = 1) =>
          /\ Finished(1)
          /\ Len(result[1].finalSummaryVariations) = NumAdvisors
          /\ Len(discussionHistory[Len(discussionHistory)].responses) = NumAdvisors
          /\ \A a \in Advisors :
                LET v == result[1].finalSummaryVariations[a]
                    e == discussionHistory[Len(discussionHistory)].responses[a]
                IN  /\ v.advisorId = preConfiguredAdvisors[a]
                    /\ e.advisorId = preConfiguredAdvisors[a]
                    /\ SummaryEntryText(v.summary, SummaryOutcome(a))
                    /\ e.response = v.summary

\* a finished call in whose summary pass one invocation failed and another
\* one succeeded
C31_Witness ==
    /\ Finished(1)
    /\ summaryPasses[1] = 1
    /\ \E a, b \in Advisors : /\ ~SummaryOutcome(a).ok
                              /\ SummaryOutcome(a).content # <<>>
                              /\ SummaryOutcome(b).ok

(***************************************************************************)
(* C32.  Directive extraction completeness: for a response made of prose   *)
(* and of directives that each have a tool string, a JSON object as        *)
(* parameters (the empty object and an object holding an object included)  *)
(* and a reason string, parseToolRequests returns one request for each     *)
(* directive, in the order of the directives.                              *)
(***************************************************************************)
\* the directives of the model whose parameters are a JSON object
ObjectDirectives == {DirectiveGood, DirectiveEmpty, DirectiveNested}

\* the tool string of a directive of the model
ToolOf(directive) == <<directive[7]>>

\* the tools of the directives of the response, in order
DirectiveTools ==
    Flatten([i \in 1..Len(parseParts) |->
                IF parseParts[i] \in ObjectDirectives
                THEN << ToolOf(parseParts[i]) >> ELSE <<>>])

C32_ExtractionComplete ==
    (/\ parseResult # None
     /\ \A i \in 1..Len(parseParts) : parseParts[i] \in ObjectDirectives \cup {TextA}) =>
        /\ Len(parseResult[1]) = Len(DirectiveTools)
        /\ \A k \in 1..Len(parseResult[1]) : parseResult[1][k].tool = DirectiveTools[k]

(***************************************************************************)
(* C33.  Round numbering: while the server handles one call at a time, the *)
(* i-th round of the ledger has index i at every point, the summary round  *)
(* included, and so has the i-th round of a returned ledger; a result that *)
(* asks for tools reports as its round the length of the ledger.           *)
(***************************************************************************)
\* the rounds of a ledger are numbered 1, 2, ... in their order
NumberedFromOne(history) == \A i \in 1..Len(history) : history[i].round = i

C33_RoundNumbering ==
    /\ NumberedFromOne(discussionHistory)
    /\ Finished(1) => NumberedFromOne(result[1].discussionHistory)
    /\ Awaiting(1) =>
          /\ result[1].round = Len(discussionHistory)
          /\ result[1].discussionSummary[1].totalRounds = result[1].round

\* a call that asks for tools in its second round
C33_Witness ==
    /\ Awaiting(1)
    /\ result[1].round = 2
    /\ Len(discussionHistory) = 2

(***************************************************************************)
(* C34.  Only the last evaluated round decides: while the server handles   *)
(* one call at a time, every evaluated round of the ledger before the last *)
(* evaluated one has no consensus text and no response with tool requests; *)
(* the summary round repeats the consensus text of the last evaluated      *)
(* round and carries no tool requests.                                     *)
(***************************************************************************)
C34_LastRoundDecides ==
    Passed(1) =>
        /\ \A k \in 1..(Evaluated - 1) : ~HasConsensus(k) /\ ~HasToolRequests(k)
        /\ Finished(1) =>
              /\ ~HasToolRequests(Len(discussionHistory))
              /\ HasConsensus(Len(discussionHistory)) => HasConsensus(Evaluated)

\* a finished call whose second round had a consensus and tool requests
C34_Witness ==
    /\ Finished(1)
    /\ Len(discussionHistory) = 3
    /\ HasConsensus(2)
    /\ HasToolRequests(2)
    /\ HasConsensus(3)

(***************************************************************************)
(* C35.  Response order: an invocation that completes fills the position   *)
(* of its advisor and no other, whichever invocations completed before it; *)
(* the responses of every round of the ledger, the list of tool requests   *)
(* of a result that asks for tools and finalSummaryVariations are in       *)
(* roster order, and the consensus text of a round is the response of the  *)
(* first advisor of the roster whose normalized text is the agreed one.    *)
(***************************************************************************)
\* the responses of round k of the ledger are those of the advisors 1, 2, ...
InRosterOrder(k) ==
    /\ Len(discussionHistory[k].responses) = NumAdvisors
    /\ \A a \in Advisors :
          /\ discussionHistory[k].responses[a].advisorId = preConfiguredAdvisors[a]
          /\ EndsWith(discussionHistory[k].responses[a].response,
                      OutcomeText(outcomeLog[1][k][a]))

\* the advisors whose response in round k holds a directive, in roster order
Requesters(k) ==
    Flatten([a \in Advisors |->
                IF discussionHistory[k].responses[a].toolRequests # <<>>
                THEN << <<preConfiguredAdvisors[a]>> >> ELSE <<>>])

\* the first advisor of the roster whose response in round k normalizes to text
FirstWith(k, text) ==
    SetMin({a \in Advisors : Normalize(discussionHistory[k].responses[a].response) = text})

C35_RosterOrder ==
    /\ [][\A a \in Advisors :
            (InFlight(a) /\ settled'[1][a].status # "pending") =>
                /\ settled'[1][a].status = "fulfilled"
                /\ settled'[1][a].advisorId = preConfiguredAdvisors[a]
                /\ \A b \in Advisors \ {a} : settled'[1][b] = settled[1][b]]_vars
    /\ [](Passed(1) =>
            /\ \A k \in 1..Len(discussionHistory) : InRosterOrder(k)
            /\ \A k \in 1..Evaluated :
                  HasConsensus(k) =>
                     discussionHistory[k].consensus[1] =
                        discussionHistory[k].responses[
                            FirstWith(k, Normalize(discussionHistory[k].consensus[1]))].response
            /\ Awaiting(1) =>
                  [i \in 1..Len(result[1].toolRequests) |-> result[1].toolRequests[i].tool]
                      = Requesters(Len(discussionHistory))
            /\ Finished(1) =>
                  \A a \in Advisors :
                     result[1].finalSummaryVariations[a].advisorId
                         = preConfiguredAdvisors[a])

\* a consensus on the text of advisors 2 and later, advisor 1 asking for a tool
C35_Witness ==
    /\ Finished(1)
    /\ discussionHistory[1].responses[1].toolRequests # <<>>
    /\ HasConsensus(1)
    /\ discussionHistory[1].consensus[1] = Padded(2)
    /\ \E a \in Advisors : ~SummaryOutcome(a).ok

(***************************************************************************)
(* C36.  The summary pass leaves the outcome unchanged: no step of the     *)
(* summary pass changes the consensus the loop decided; the status and the *)
(* finalConsensus of the result follow from that consensus alone, the      *)
(* result asks for no tools and the summaries carry no tool requests, so a *)
(* call that reached the round limit without consensus ends with           *)
(* max_rounds_reached also when all summaries are identical or hold        *)
(* directives.                                                             *)
(***************************************************************************)
\* the result's status and finalConsensus for the consensus the loop decided
DecidedOutcome(res, consensus) ==
    /\ res.status = IF TruthyText(consensus) THEN "consensus_reached"
                    ELSE "max_rounds_reached"
    /\ res.finalConsensus = IF TruthyText(consensus) THEN consensus[1]
                            ELSE NoConsensusText
    /\ res.toolRequests = <<>>

C36_SummaryKeepsOutcome ==
    /\ [][pc[1] = "summary" =>
            /\ finalConsensus'[1] = finalConsensus[1]
            /\ pc'[1] \in {"summary", "done"}
            /\ pc'[1] = "done" => DecidedOutcome(result'[1], finalConsensus[1])]_vars
    /\ [](Finished(1) =>
            /\ DecidedOutcome(result[1], discussionHistory[Evaluated].consensus)
            /\ ~HasToolRequests(Len(discussionHistory)))

\* the round limit was reached without consensus and every advisor's summary
\* is the same directive
C36_Witness ==
    /\ Finished(1)
    /\ ~HasConsensus(Evaluated)
    /\ result[1].status = "max_rounds_reached"
    /\ \A a \in Advisors : /\ SummaryOutcome(a).ok
                           /\ SummaryOutcome(a).content = DirectiveGood

(***************************************************************************)
(* C37.  Advisor failure in src/index.ts: when an advisor invocation       *)
(* throws, the call ends at once with status failed, isError set and the   *)
(* message of the error; the round in progress is not added to the ledger, *)
(* the advisors after the failed one are not invoked in that round, and    *)
(* the result returns no round of the ledger.                              *)
(***************************************************************************)
C37_SeqFailureFatal ==
    Passed(1) =>
        \A k \in 1..Len(outcomeLog[1]), a \in Advisors :
            Failed(k, a) =>
                /\ pc[1] = "done"
                /\ k = Len(outcomeLog[1])
                /\ result[1].status = "failed"
                /\ result[1].isError
                /\ result[1].error = outcomeLog[1][k][a].content
                /\ Len(discussionHistory) = k - 1
                /\ \A b \in Advisors :
                      /\ b > a => ~outcomeLog[1][k][b].done
                      /\ ~InFlight(b)
                /\ result[1].discussionHistory = <<>>
                /\ result[1].totalRounds = 0
                /\ result[1].finalSummaryVariations = <<>>

\* the second advisor failed in round 2, after round 1 was added to the ledger
C37_Witness ==
    /\ pc[1] = "done"
    /\ Len(outcomeLog[1]) = 2
    /\ Failed(2, 2)
    /\ outcomeLog[1][2][1].ok
    /\ Len(discussionHistory) = 1
    /\ result[1].status = "failed"

(***************************************************************************)
(* C38.  Tie between majority texts: when two or more distinct normalized  *)
(* texts share the largest count and the ratio meets the threshold,        *)
(* checkConsensus declares consensus and returns the original text of the  *)
(* earliest response among the responses of all the tied texts.  The       *)
(* statement is made for texts that name no member of Object.prototype.    *)
(***************************************************************************)
\* the responses whose normalized text has the largest count
EvalTied == {i \in 1..Len(evalResponses) : EvalClusterSize(i) = EvalMaxCount}

\* two of them differ in their normalized text
EvalTie == \E i, j \in EvalTied : EvalNorm(i) # EvalNorm(j)

\* no normalized text is the name of a member of Object.prototype
EvalPlainTexts ==
    \A i \in 1..Len(evalResponses) : EvalNorm(i) \notin InheritedKeys \cup {ProtoKey}

C38_TieBreak ==
    (/\ EvalReturned
     /\ Len(evalResponses) >= 2
     /\ EvalPlainTexts
     /\ EvalTie
     /\ EvalMaxCount * evalThreshold.den >= evalThreshold.num * Len(evalResponses)) =>
        /\ evalResult[1].hasConsensus
        /\ evalResult[1].consensus = Some(evalResponses[SetMin(EvalTied)].response)

====
